---- MODULE Spec2Model ----
(***************************************************************************)
(* A model of the read-only SQLite file reader: the varint codec, the      *)
(* database header, the B-tree page reader, the record decoder, the schema *)
(* scan and the executor, as state machines over the bytes of the file.    *)
(*                                                                         *)
(* Bytes are integers 0..255, buffers are sequences of bytes indexed from  *)
(* 0 through At.  An unsigned 64-bit value is the set of its set bit       *)
(* positions (a subset of 0..63), so that no 64-bit quantity has to fit a  *)
(* model integer.  Every fallible operation returns a record               *)
(*   [k |-> "ok" | "err" | "panic", v |-> value, e |-> message]            *)
(* where "err" is a Result::Err and "panic" is a Rust panic (an index out  *)
(* of bounds, a slice out of range, an arithmetic overflow of a build with *)
(* overflow checks).                                                       *)
(***************************************************************************)
EXTENDS Integers, Sequences, FiniteSets, TLC

VARIABLES
    file,     \* the bytes of the database file (never written)
    scn,      \* the description the file was generated from
    cursor,   \* the position of the open file handle
    debug,    \* TRUE: the build has overflow checks (debug profile)
    calls,    \* number of operations performed on this instance
    op,       \* the last operation performed
    result,   \* its result
    vsrc,     \* varint codec: where the buffer comes from
    vbuf,     \* varint codec: the buffer handed to the decoder
    vres,     \* varint codec: what the decoder returned
    rsrc,     \* record decoder: the field or the row the buffer is written from
    rbuf,     \* record decoder: the bytes handed to Record::new
    rres,     \* record decoder: what the decoder returned
    psrc,     \* parser: what the SQL text is written from
    ptext,    \* parser: the text handed to Statement::parse
    parsed,   \* parser: what Statement::parse returned
    frames,   \* traversal: the calls of count_records_in_btree in their child loop
    call,     \* traversal: the call entered or the value returned
    dbinfo    \* traversal: what get_info returns on the file

vars == <<file, scn, cursor, debug, calls, op, result, vsrc, vbuf, vres,
          rsrc, rbuf, rres, psrc, ptext, parsed, frames, call, dbinfo>>
dbvars == <<file, scn, cursor, calls, op, result>>
vvars == <<vsrc, vbuf, vres>>
rvars == <<rsrc, rbuf, rres>>
pvars == <<psrc, ptext, parsed>>
cvars == <<frames, call, dbinfo>>

----------------------------------------------------------------------------
(* Results *)

Ok(v) == [k |-> "ok", v |-> v, e |-> ""]
Err(e) == [k |-> "err", v |-> <<>>, e |-> e]
Panic(e) == [k |-> "panic", v |-> <<>>, e |-> e]

----------------------------------------------------------------------------
(* Bytes, buffers and 64-bit values *)

At(data, i) == data[i + 1]

\* data[from..to] of Rust: the bytes at from, ..., to - 1.
Slice(data, from, to) == SubSeq(data, from + 1, to)

Zeros(n) == [i \in 1..n |-> 0]

Bit(b, i) == (b \div (2 ^ i)) % 2

BitsOfByte(b) == {i \in 0..7 : Bit(b, i) = 1}

\* The bits of a byte's payload placed at shift, inside 64 bits.
Shifted(payload, shift) == {j + shift : j \in BitsOfByte(payload)} \cap (0..63)

\* Values at or above 2^SatBits are all read as 2^SatBits: every quantity they
\* are compared with (an offset into a page of at most 65536 bytes) is smaller.
SatBits == 24

RECURSIVE SumPow(_)
SumPow(x) ==
    IF x = {} THEN 0
    ELSE LET i == CHOOSE j \in x : TRUE IN (2 ^ i) + SumPow(x \ {i})

IntOf(x) == IF \E i \in x : i >= SatBits THEN 2 ^ SatBits ELSE SumPow(x)

U64(n) == {i \in 0..30 : Bit(n, i) = 1}

\* The value of the w bits of x starting at bit lo.
Group(x, lo, w) == SumPow({i - lo : i \in x \cap (lo..(lo + w - 1))})

\* The eight big-endian bytes of a 64-bit value.
U64Bytes(x) == [j \in 1..8 |-> Group(x, 8 * (8 - j), 8)]

----------------------------------------------------------------------------
(* Varint codec: src/sqlite/core/varint.rs *)

\* for &byte in bytes.iter() { result |= ((byte & 0x7f) as u64) << shift; ... }
\* The shift overflows at 64: a panic with overflow checks, else the shift
\* amount is taken modulo 64.
RECURSIVE ReadVarintLoop(_, _, _, _, _)
ReadVarintLoop(data, i, shift, acc, dbg) ==
    IF i >= Len(data) THEN Ok(acc)
    ELSE IF shift >= 64 /\ dbg THEN Panic("attempt to shift left with overflow")
    ELSE IF At(data, i) < 128 THEN Ok(acc \cup Shifted(At(data, i) % 128, shift % 64))
    ELSE ReadVarintLoop(data, i + 1, shift + 7,
                        acc \cup Shifted(At(data, i) % 128, shift % 64), dbg)

\* read_varint(&data[start..]): Ok(value) for every slice, also the empty one.
ReadVarint(data, start, dbg) == ReadVarintLoop(data, start, 0, {}, dbg)

RECURSIVE VarintSizeLoop(_, _, _)
VarintSizeLoop(data, start, size) ==
    IF start + size < Len(data) /\ At(data, start + size) >= 128
    THEN VarintSizeLoop(data, start, size + 1)
    ELSE size + 1

\* varint_size(&data[start..])
VarintSize(data, start) == VarintSizeLoop(data, start, 0)

----------------------------------------------------------------------------
(* Record::read_varint: src/sqlite/core/record.rs *)

\* r is read_varint(&data[position..])?; the position moves by varint_size.
RecordReadVarintOf(r, data, position) ==
    IF r.k # "ok" THEN r
    ELSE Ok([value |-> r.v, position |-> position + VarintSize(data, position)])

\* Slicing &data[position..] panics when position > len.
RecordReadVarint(data, position, dbg) ==
    IF position > Len(data) THEN Panic("range start index out of range")
    ELSE RecordReadVarintOf(ReadVarint(data, position, dbg), data, position)

----------------------------------------------------------------------------
(* BTreePage::read_varint: src/sqlite/core/btree.rs *)

RECURSIVE BTreeReadVarintLoop(_, _, _, _, _)
BTreeReadVarintLoop(data, position, n, shift, acc) ==
    IF position >= Len(data) THEN Panic("index out of bounds")
    ELSE IF n = 8
    THEN Ok([value |-> acc \cup Shifted(At(data, position), shift),
             position |-> position + 1])
    ELSE IF At(data, position) < 128
    THEN Ok([value |-> acc \cup Shifted(At(data, position) % 128, shift),
             position |-> position + 1])
    ELSE BTreeReadVarintLoop(data, position + 1, n + 1, shift + 7,
                             acc \cup Shifted(At(data, position) % 128, shift))

BTreeReadVarint(data, position) == BTreeReadVarintLoop(data, position, 0, 0, {})

----------------------------------------------------------------------------
(* Strings: String::from_utf8, starts_with, to_uppercase, join *)

Cont(s, i) == i <= Len(s) /\ s[i] \in 128..191

\* String::from_utf8 accepts exactly the well-formed UTF-8 byte sequences.
RECURSIVE Utf8From(_, _)
Utf8From(s, i) ==
    IF i > Len(s) THEN TRUE
    ELSE LET b == s[i] IN
         CASE b < 128 -> Utf8From(s, i + 1)
           [] b \in 194..223 -> Cont(s, i + 1) /\ Utf8From(s, i + 2)
           [] b = 224 -> i + 1 <= Len(s) /\ s[i + 1] \in 160..191 /\ Cont(s, i + 2)
                         /\ Utf8From(s, i + 3)
           [] b \in (225..236) \cup {238, 239} ->
                         Cont(s, i + 1) /\ Cont(s, i + 2) /\ Utf8From(s, i + 3)
           [] b = 237 -> i + 1 <= Len(s) /\ s[i + 1] \in 128..159 /\ Cont(s, i + 2)
                         /\ Utf8From(s, i + 3)
           [] b = 240 -> i + 1 <= Len(s) /\ s[i + 1] \in 144..191 /\ Cont(s, i + 2)
                         /\ Cont(s, i + 3) /\ Utf8From(s, i + 4)
           [] b \in 241..243 -> Cont(s, i + 1) /\ Cont(s, i + 2) /\ Cont(s, i + 3)
                         /\ Utf8From(s, i + 4)
           [] b = 244 -> i + 1 <= Len(s) /\ s[i + 1] \in 128..143 /\ Cont(s, i + 2)
                         /\ Cont(s, i + 3) /\ Utf8From(s, i + 4)
           [] OTHER -> FALSE

IsUtf8(s) == Utf8From(s, 1)

StartsWith(s, prefix) ==
    Len(s) >= Len(prefix) /\ SubSeq(s, 1, Len(prefix)) = prefix

\* "sqlite_"
SqlitePrefix == <<115, 113, 108, 105, 116, 101, 95>>

\* to_uppercase on the ASCII letters of a name.
ToUpper(s) == [i \in 1..Len(s) |-> IF s[i] \in 97..122 THEN s[i] - 32 ELSE s[i]]

RECURSIVE Join(_, _)
Join(strs, sep) ==
    IF Len(strs) = 0 THEN <<>>
    ELSE IF Len(strs) = 1 THEN strs[1]
    ELSE strs[1] \o sep \o Join(Tail(strs), sep)

----------------------------------------------------------------------------
(* The open file: seek and read.  Results carry the cursor left behind. *)

OkC(v, c) == [k |-> "ok", v |-> v, e |-> "", cur |-> c]
ErrC(e, c) == [k |-> "err", v |-> <<>>, e |-> e, cur |-> c]
PanicC(e) == [k |-> "panic", v |-> <<>>, e |-> e, cur |-> 0]

\* A failure of a pure step inside an operation that holds the cursor at c.
Lift(r, c) == [k |-> r.k, v |-> r.v, e |-> r.e, cur |-> c]

\* seek(SeekFrom::Start(0)); read_exact(&mut [0; n])
ReadExactFromStart(f, n) ==
    IF Len(f) < n THEN ErrC("Io: failed to fill whole buffer", Len(f))
    ELSE OkC(Slice(f, 0, n), n)

\* SQLiteDatabase::read_header: the first 100 bytes, magic not looked at.
ReadHeader(f) == ReadExactFromStart(f, 100)

\* u16::from_be_bytes([data[i], data[i + 1]]); the caller checks the bounds.
BE16At(data, i) == At(data, i) * 256 + At(data, i + 1)

\* u32::from_be_bytes; values of 2^30 and more are all read as 2^30, beyond
\* every page of every file of the model.
BE32Of(b0, b1, b2, b3) ==
    IF b0 >= 64 THEN 2 ^ 30 ELSE ((b0 * 256 + b1) * 256 + b2) * 256 + b3

----------------------------------------------------------------------------
(* Record header: Record::read_header, src/sqlite/core/record.rs.  The same  *)
(* statements are inlined in list_tables and find_table_root_page.           *)

\* The state of the loop that reads the serial types: where it stands, what
\* it has pushed, whether it has ended and how (r is the result when done).
TypesAt(pos, types) == [done |-> FALSE, pos |-> pos, types |-> types, r |-> Ok(<<>>)]
TypesDone(r) == [done |-> TRUE, pos |-> 0, types |-> <<>>, r |-> r]

\* r is read_varint(&data[pos..])?; the type is pushed, the position moved.
SerialTypesPush(r, st, data) ==
    IF r.k # "ok" THEN TypesDone(r)
    ELSE TypesAt(st.pos + VarintSize(data, st.pos), Append(st.types, r.v))

\* One turn of: while position < header_end { serial_types.push(..) }
SerialTypesStep(st, data, header_end, dbg) ==
    IF st.done THEN st
    ELSE IF st.pos >= header_end
    THEN TypesDone(Ok([types |-> st.types, position |-> st.pos]))
    ELSE IF st.pos > Len(data) THEN TypesDone(Panic("range start index out of range"))
    ELSE SerialTypesPush(ReadVarint(data, st.pos, dbg), st, data)

\* n turns of the loop, by halves.
RECURSIVE SerialTypesTurns(_, _, _, _, _)
SerialTypesTurns(st, n, data, header_end, dbg) ==
    IF st.done THEN st
    ELSE IF n <= 1 THEN SerialTypesStep(st, data, header_end, dbg)
    ELSE SerialTypesTurns(SerialTypesTurns(st, n \div 2, data, header_end, dbg),
                          n - (n \div 2), data, header_end, dbg)

\* Every turn moves the position by one byte or more, and the loop ends at
\* header_end or past the end of the data: Len(data) + 2 turns end it.
SerialTypesLoop(data, pos, header_end, types, dbg) ==
    SerialTypesTurns(TypesAt(pos, types), Len(data) + 2, data, header_end, dbg).r

\* pos is the position after the header-size varint.
\* header_end = pos + header_size - varint_size(&data[pos - 1..])
RecordReadHeaderTypes(data, pos, header_size, dbg) ==
    IF pos - 1 > Len(data) THEN Panic("range start index out of range")
    ELSE SerialTypesLoop(data, pos, pos + header_size - VarintSize(data, pos - 1),
                         <<>>, dbg)

\* r is the header size read at position.
RecordReadHeaderOf(r, data, position, dbg) ==
    IF r.k # "ok" THEN r
    ELSE RecordReadHeaderTypes(data, position + VarintSize(data, position),
                               IntOf(r.v), dbg)

RecordReadHeader(data, position, dbg) ==
    IF position > Len(data) THEN Panic("range start index out of range")
    ELSE RecordReadHeaderOf(ReadVarint(data, position, dbg), data, position, dbg)

\* ((type_code - 13) / 2) as usize, taken when type_code >= 13.
TextSize(type_code) == (IntOf(type_code) - 13) \div 2

\* The bytes a skipped field takes: text and blob sizes only, `continue` else.
SkipSize(type_code) == IF IntOf(type_code) >= 13 THEN TextSize(type_code) ELSE 0

----------------------------------------------------------------------------
(* SQLiteDatabase::list_tables and get_info: src/sqlite/db.rs *)

\* tables.push(table_name) for every name that is UTF-8, the prefix not looked at.
ListTablesPushAny(table_name) ==
    IF IsUtf8(table_name) THEN Ok(<<table_name>>) ELSE Ok(<<>>)

\* if !table_name.starts_with("sqlite_") { tables.push(table_name) }
ListTablesPush(table_name) ==
    IF IsUtf8(table_name) /\ ~StartsWith(table_name, SqlitePrefix)
    THEN Ok(<<table_name>>)
    ELSE Ok(<<>>)

\* String::from_utf8(page[pos..pos + name_size].to_vec())
ListTablesName(page, pos, name_size) ==
    IF pos + name_size > Len(page) THEN Panic("range end index out of range")
    ELSE ListTablesPush(Slice(page, pos, pos + name_size))

\* The fields of a schema row: serial_types[0] and [1] are skipped, the text
\* of serial_types[2] is the name pushed.
ListTablesFields(page, types, position) ==
    IF Len(types) < 2 THEN Panic("index out of bounds: serial_types")
    ELSE IF Len(types) >= 3 /\ IntOf(types[3]) >= 13
    THEN ListTablesName(page, position + SkipSize(types[1]) + SkipSize(types[2]),
                        TextSize(types[3]))
    ELSE Ok(<<>>)

\* h is the record header of the cell.
ListTablesRecord(h, page) ==
    IF h.k # "ok" THEN h ELSE ListTablesFields(page, h.v.types, h.v.position)

\* pos is the position of the rowid varint.
ListTablesRowid(page, pos, dbg) ==
    IF pos > Len(page) THEN Panic("range start index out of range")
    ELSE ListTablesRecord(RecordReadHeader(page, pos + VarintSize(page, pos), dbg), page)

\* One cell of page 1: Ok(<<name>>) when a name is pushed, Ok(<<>>) when not.
ListTablesCell(page, ptr, dbg) ==
    IF ptr > Len(page) THEN Panic("range start index out of range")
    ELSE ListTablesRowid(page, ptr + VarintSize(page, ptr), dbg)

\* for &ptr in cell_pointers.iter()
RECURSIVE ListTablesCells(_, _, _, _, _)
RECURSIVE ListTablesNext(_, _, _, _, _, _)
ListTablesCells(page, num_cells, i, tables, dbg) ==
    IF i >= num_cells THEN Ok(tables)
    ELSE ListTablesNext(ListTablesCell(page, BE16At(page, 108 + 2 * i), dbg),
                        page, num_cells, i, tables, dbg)

ListTablesNext(r, page, num_cells, i, tables, dbg) ==
    IF r.k # "ok" THEN r
    ELSE ListTablesCells(page, num_cells, i + 1, tables \o r.v, dbg)

\* The page size list_tables sizes its buffer with: the raw 16-bit field.
HeaderPageSize(header) == BE16At(header, 16)

\* The cell pointer array is read in full before any cell is looked at.
PointerArrayInBounds(page, array_start, num_cells) ==
    num_cells = 0 \/ array_start + 2 * (num_cells - 1) + 1 < Len(page)

\* p is the first page_size bytes of the file.
ListTablesPage(p, dbg) ==
    IF p.k # "ok" THEN p
    ELSE IF Len(p.v) <= 106 THEN PanicC("index out of bounds: page header")
    ELSE IF ~PointerArrayInBounds(p.v, 108, BE16At(p.v, 103))
    THEN PanicC("index out of bounds: cell pointer array")
    ELSE Lift(ListTablesCells(p.v, BE16At(p.v, 103), 0, <<>>, dbg), p.cur)

\* h is the 100-byte header.
ListTablesHeader(h, f, dbg) ==
    IF h.k # "ok" THEN h
    ELSE ListTablesPage(ReadExactFromStart(f, HeaderPageSize(h.v)), dbg)

ListTables(f, dbg) == ListTablesHeader(ReadHeader(f), f, dbg)

\* t is list_tables()?; num_tables is its length.
GetInfoTables(t, page_size) ==
    IF t.k # "ok" THEN t
    ELSE OkC([page_size |-> page_size, num_tables |-> Len(t.v)], t.cur)

\* get_info of src/sqlite/mod.rs: num_tables is the cell count of page 1, read
\* from the eight bytes after the header; list_tables is not called.
GetInfoHeaderCells(h, f, dbg) ==
    IF h.k # "ok" THEN h
    ELSE IF Len(f) < 108 THEN ErrC("Io: failed to fill whole buffer", Len(f))
    ELSE OkC([page_size |-> HeaderPageSize(h.v), num_tables |-> BE16At(f, 103)], 108)

\* h is the 100-byte header.
GetInfoHeader(h, f, dbg) ==
    IF h.k # "ok" THEN h
    ELSE GetInfoTables(ListTables(f, dbg), HeaderPageSize(h.v))

GetInfo(f, dbg) == GetInfoHeader(ReadHeader(f), f, dbg)

----------------------------------------------------------------------------
(* Display of integers (to_string, format!("{}")) *)

RECURSIVE Div10(_, _, _, _)
Div10(bytes, i, rem, q) ==
    IF i > Len(bytes) THEN [q |-> q, r |-> rem]
    ELSE LET cur == rem * 256 + bytes[i] IN
         Div10(bytes, i + 1, cur % 10, Append(q, cur \div 10))

IsZero(bytes) == \A i \in 1..Len(bytes) : bytes[i] = 0

RECURSIVE DecDigits(_)
DecDigits(bytes) ==
    IF IsZero(bytes) THEN <<>>
    ELSE LET d == Div10(bytes, 1, 0, <<>>) IN Append(DecDigits(d.q), 48 + d.r)

\* The decimal digits of the unsigned big-endian number bytes.
UToString(bytes) == IF IsZero(bytes) THEN <<48>> ELSE DecDigits(bytes)

RECURSIVE AddOne(_, _)
AddOne(bytes, i) ==
    IF i = 0 THEN bytes
    ELSE IF bytes[i] = 255 THEN AddOne([bytes EXCEPT ![i] = 0], i - 1)
    ELSE [bytes EXCEPT ![i] = bytes[i] + 1]

Negate(bytes) == AddOne([i \in 1..Len(bytes) |-> 255 - bytes[i]], Len(bytes))

\* i64::from_be_bytes(bytes).to_string()
I64ToString(bytes) ==
    IF bytes[1] >= 128 THEN <<45>> \o UToString(Negate(bytes)) ELSE UToString(bytes)

HexDigit(n) == IF n < 10 THEN 48 + n ELSE 87 + n

\* f64::from_be_bytes(bytes).to_string(): the digits Display prints are not
\* modelled; the stand-in is "f" and the sixteen hex digits of the bit pattern.
F64ToString(bytes) ==
    <<102>> \o [i \in 1..16 |-> IF i % 2 = 1 THEN HexDigit(bytes[(i + 1) \div 2] \div 16)
                                ELSE HexDigit(bytes[i \div 2] % 16)]

----------------------------------------------------------------------------
(* Record fields: src/sqlite/core/record.rs *)

\* let size = match type_code { 1 => 1, .., 5 => 6, 6 => 8, _ => return Err }
IntegerSize(tc) ==
    CASE tc = 1 -> 1 [] tc = 2 -> 2 [] tc = 3 -> 3 [] tc = 4 -> 4
      [] tc = 5 -> 6 [] tc = 6 -> 8 [] OTHER -> 0

\* bytes[..size].copy_from_slice(..): the field fills the FRONT of the eight
\* bytes handed to i64::from_be_bytes.
RecordReadIntegerOf(data, position, size) ==
    IF size = 0 THEN Err("Invalid integer type code")
    ELSE IF position + size > Len(data) THEN Panic("range end index out of range")
    ELSE Ok([value |-> Slice(data, position, position + size) \o Zeros(8 - size),
             position |-> position + size])

RecordReadInteger(data, position, type_code) ==
    RecordReadIntegerOf(data, position, IntegerSize(IntOf(type_code)))

RecordReadFloat(data, position) ==
    IF position + 8 > Len(data) THEN Panic("range end index out of range")
    ELSE Ok([value |-> Slice(data, position, position + 8), position |-> position + 8])

Min(a, b) == IF a < b THEN a ELSE b

\* value is <<s>> for Some(s) and <<>> for None, which leaves the position.
RecordReadStringOf(s, position) ==
    IF IsUtf8(s) THEN Ok([value |-> <<s>>, position |-> position + Len(s)])
    ELSE Ok([value |-> <<>>, position |-> position])

\* available_size = min(size, data.len() - position)
RecordReadStringField(data, position, type_code) ==
    IF IntOf(type_code) >= 13
    THEN IF position > Len(data) THEN Panic("data.len() - position overflows")
         ELSE RecordReadStringOf(
                Slice(data, position,
                      position + Min(TextSize(type_code), Len(data) - position)),
                position)
    ELSE Ok([value |-> <<>>, position |-> position])

----------------------------------------------------------------------------
(* BTreePage: src/sqlite/core/btree.rs *)

\* offset > file_len in place of offset >= file_len.
OffsetPast(wrapped, n1, page_size, file_len) == wrapped \/ n1 * page_size > file_len

\* offset >= file_len, for offset = (page_num - 1) * page_size, where wrapped is
\* page_num - 1 having wrapped to 2^32 - 1 in a build without overflow checks.
OffsetBeyond(wrapped, n1, page_size, file_len) ==
    IF page_size = 0 THEN file_len = 0
    ELSE wrapped \/ n1 >= (file_len + page_size - 1) \div page_size

\* The page starts at offset < file_len: read() returns what the file holds.
BTreePageAt(f, offset, page_size) ==
    IF Min(page_size, Len(f) - offset) # page_size
    THEN ErrC("Partial read", offset + Min(page_size, Len(f) - offset))
    ELSE IF page_size < 5 THEN PanicC("index out of bounds: page")
    ELSE OkC([data |-> Slice(f, offset, offset + page_size),
              page_type |-> At(f, offset),
              num_cells |-> BE16At(f, offset + 3)],
             offset + page_size)

BTreePageRead(f, page_num, page_size, dbg) ==
    IF page_num = 0 /\ dbg THEN PanicC("attempt to subtract with overflow")
    ELSE IF OffsetBeyond(page_num = 0, page_num - 1, page_size, Len(f))
    THEN ErrC("Page offset exceeds file length", Len(f))
    ELSE BTreePageAt(f, IF page_num = 0 THEN 0 ELSE (page_num - 1) * page_size,
                     page_size)

\* read_cell_pointers(header_offset); the caller checks the bounds.
ReadCellPointers(page, header_offset) ==
    [i \in 1..page.num_cells |-> BE16At(page.data, header_offset + 8 + 2 * (i - 1))]

\* u32::from_be_bytes of the four bytes at pos.
BE32At(data, pos) ==
    BE32Of(At(data, pos), At(data, pos + 1), At(data, pos + 2), At(data, pos + 3))

RECURSIVE ChildPagesLoop(_, _, _)
RECURSIVE ChildPagesCell(_, _, _, _)
ChildPagesLoop(page, i, children) ==
    IF i >= page.num_cells
    THEN IF Len(page.data) < 12 THEN Panic("index out of bounds: rightmost")
         ELSE Ok(Append(children, BE32At(page.data, 8)))
    ELSE IF 12 + 2 * i + 1 >= Len(page.data) THEN Panic("index out of bounds: pointer")
    ELSE ChildPagesCell(page, i, children, BE16At(page.data, 12 + 2 * i))

ChildPagesCell(page, i, children, cell_ptr) ==
    IF cell_ptr + 3 >= Len(page.data) THEN Panic("index out of bounds: cell")
    ELSE ChildPagesLoop(page, i + 1, Append(children, BE32At(page.data, cell_ptr)))

\* r without its last element.
DropLast(r) == IF r.k # "ok" THEN r ELSE Ok(SubSeq(r.v, 1, Len(r.v) - 1))

\* The left-child pointers of the cells alone, the rightmost pointer left out.
GetLeftChildPages(page) ==
    IF page.page_type # 5 THEN Err("Not an interior page")
    ELSE DropLast(ChildPagesLoop(page, 0, <<>>))

GetChildPages(page) ==
    IF page.page_type # 5 THEN Err("Not an interior page")
    ELSE ChildPagesLoop(page, 0, <<>>)

\* The index of a least element of a non-empty sequence.
MinIndex(s) == CHOOSE i \in 1..Len(s) : \A j \in 1..Len(s) : s[i] <= s[j]

Without(s, m) == SubSeq(s, 1, m - 1) \o SubSeq(s, m + 1, Len(s))

RECURSIVE SortAsc(_)
RECURSIVE SortAscFrom(_, _)
\* sort_unstable on the cell pointers.
SortAsc(s) == IF Len(s) = 0 THEN <<>> ELSE SortAscFrom(s, MinIndex(s))

SortAscFrom(s, m) == <<s[m]>> \o SortAsc(Without(s, m))

\* The checks on the boundaries of a leaf cell, then the slice.
CellBounds(data, cell_start, cell_end) ==
    IF cell_start >= Len(data) THEN Err("Cell start exceeds page size")
    ELSE IF cell_end > Len(data) THEN Err("Cell end exceeds page size")
    ELSE IF cell_start >= cell_end THEN Err("Invalid cell boundaries")
    ELSE Ok(Slice(data, cell_start, cell_end))

\* The next sorted pointer, or the page size for the last cell.
CellEnd(cell_pointers, cell_index, page_len) ==
    IF cell_index + 1 < Len(cell_pointers) THEN cell_pointers[cell_index + 2]
    ELSE page_len

\* cell_pointers are the pointers sorted by offset.
GetCellDataAt(page, cell_index, cell_pointers) ==
    IF page.page_type = 13
    THEN CellBounds(page.data, cell_pointers[cell_index + 1],
                    CellEnd(cell_pointers, cell_index, Len(page.data)))
    ELSE Err("Not a leaf page")

GetCellData(page, cell_index) ==
    IF cell_index >= page.num_cells THEN Err("Cell index out of bounds")
    ELSE IF Len(page.data) < 8 THEN Err("Page header too short")
    ELSE IF ~PointerArrayInBounds(page.data, 8, page.num_cells)
    THEN Panic("index out of bounds: cell pointer array")
    ELSE GetCellDataAt(page, cell_index, SortAsc(ReadCellPointers(page, 0)))

----------------------------------------------------------------------------
(* Executor: src/sqlite/execute.rs *)

\* let root_page = match root_type { 1 => page[pos], 2 => .., 3 => .., 4 => .. }
RootPageValue(page, pos, tc) ==
    CASE tc = 1 -> At(page, pos)
      [] tc = 2 -> BE16At(page, pos)
      [] tc = 3 -> BE32Of(0, At(page, pos), At(page, pos + 1), At(page, pos + 2))
      [] tc = 4 -> BE32At(page, pos)

\* The rootpage field of a matching row, then the info! of &page[pos..pos + 4];
\* the field of type code tc takes tc bytes.
RootPageOf(page, pos, tc) ==
    IF tc \notin 1..4 THEN Err("Invalid root page type")
    ELSE IF pos + tc > Len(page) THEN Panic("index out of bounds: rootpage")
    ELSE IF pos + 4 > Len(page) THEN Panic("range end index out of range")
    ELSE Ok(<<RootPageValue(page, pos, tc)>>)

RootPageField(page, pos, root_type) == RootPageOf(page, pos, IntOf(root_type))

\* if name == table_name { pos += name_size * 2; .. serial_types.get(3) .. }
FindRootMatch(page, pos, name, types, table_name) ==
    IF IsUtf8(name) /\ name = table_name /\ Len(types) >= 4
    THEN RootPageField(page, pos + Len(name) * 2, types[4])
    ELSE Ok(<<>>)

\* String::from_utf8(page[pos..pos + name_size].to_vec())
FindRootName(page, pos, name_size, types, table_name) ==
    IF pos + name_size > Len(page) THEN Panic("range end index out of range")
    ELSE FindRootMatch(page, pos, Slice(page, pos, pos + name_size), types, table_name)

\* The text of serial_types[0] is skipped; the size of serial_types[2] is the
\* length read at that position.
FindRootFields(page, types, position, table_name) ==
    IF Len(types) >= 3 /\ IntOf(types[3]) >= 13
    THEN FindRootName(page, position + SkipSize(types[1]), TextSize(types[3]),
                      types, table_name)
    ELSE Ok(<<>>)

\* h is the record header of the cell.
FindRootRecord(h, page, table_name) ==
    IF h.k # "ok" THEN h
    ELSE FindRootFields(page, h.v.types, h.v.position, table_name)

\* pos is the position of the rowid varint.
FindRootRowid(page, pos, table_name, dbg) ==
    IF pos > Len(page) THEN Panic("range start index out of range")
    ELSE FindRootRecord(RecordReadHeader(page, pos + VarintSize(page, pos), dbg),
                        page, table_name)

\* One cell of page 1: Ok(<<root_page>>) on a match, Ok(<<>>) to go on.
FindRootCell(page, ptr, table_name, dbg) ==
    IF ptr > Len(page) THEN Panic("range start index out of range")
    ELSE FindRootRowid(page, ptr + VarintSize(page, ptr), table_name, dbg)

\* for (i, &ptr) in cell_pointers.iter().enumerate()
RECURSIVE FindRootCells(_, _, _, _, _)
RECURSIVE FindRootNext(_, _, _, _, _, _)
FindRootCells(page, num_cells, i, table_name, dbg) ==
    IF i >= num_cells THEN Err("Table not found")
    ELSE FindRootNext(FindRootCell(page, BE16At(page, 108 + 2 * i), table_name, dbg),
                      page, num_cells, i, table_name, dbg)

FindRootNext(r, page, num_cells, i, table_name, dbg) ==
    IF r.k # "ok" THEN r
    ELSE IF Len(r.v) = 1 THEN Ok(r.v[1])
    ELSE FindRootCells(page, num_cells, i + 1, table_name, dbg)

\* p is the first page_size bytes of the file.
FindRootPage(p, table_name, dbg) ==
    IF p.k # "ok" THEN p
    ELSE IF Len(p.v) <= 104 THEN PanicC("index out of bounds: page header")
    ELSE IF ~PointerArrayInBounds(p.v, 108, BE16At(p.v, 103))
    THEN PanicC("index out of bounds: cell pointer array")
    ELSE Lift(FindRootCells(p.v, BE16At(p.v, 103), 0, table_name, dbg), p.cur)

\* gi is get_info()?.
FindRootInfo(gi, f, table_name, dbg) ==
    IF gi.k # "ok" THEN gi
    ELSE FindRootPage(ReadExactFromStart(f, gi.v.page_size), table_name, dbg)

FindTableRootPage(f, table_name, dbg) ==
    FindRootInfo(GetInfo(f, dbg), f, table_name, dbg)

\* A chain of page reads longer than the number of whole pages of the file
\* revisits a page, and the recursion then never returns: the stack overflows.
RECURSIVE CountRecordsInBtree(_, _, _, _)
RECURSIVE CountInfo(_, _, _, _, _)
RECURSIVE CountPage(_, _, _, _)
RECURSIVE CountChildPages(_, _, _, _, _)
RECURSIVE CountChildren(_, _, _, _, _, _, _)
RECURSIVE CountChild(_, _, _, _, _, _, _)
CountRecordsInBtree(f, page_num, dbg, depth) ==
    CountInfo(GetInfo(f, dbg), f, page_num, dbg, depth)

\* gi is get_info()?.
CountInfo(gi, f, page_num, dbg, depth) ==
    IF gi.k # "ok" THEN gi
    ELSE IF depth > Len(f) \div gi.v.page_size THEN PanicC("stack overflow")
    ELSE CountPage(BTreePageRead(f, page_num, gi.v.page_size, dbg), f, dbg, depth)

\* match page.page_type() { 13 => .., 5 => .., pt => Err }
CountPage(p, f, dbg, depth) ==
    IF p.k # "ok" THEN p
    ELSE CASE p.v.page_type = 13 -> OkC(p.v.num_cells, p.cur)
           [] p.v.page_type = 5 ->
                CountChildPages(GetChildPages(p.v), p.cur, f, dbg, depth)
           [] OTHER -> ErrC("Invalid page type", p.cur)

\* c is page.get_child_pages()?.
CountChildPages(c, cur, f, dbg, depth) ==
    IF c.k # "ok" THEN Lift(c, cur)
    ELSE CountChildren(f, c.v, 1, 0, cur, dbg, depth)

\* for child_page in children { total += count_records_in_btree(child_page)? }
CountChildren(f, children, i, total, cur, dbg, depth) ==
    IF i > Len(children) THEN OkC(total, cur)
    ELSE CountChild(CountRecordsInBtree(f, children[i], dbg, depth + 1),
                    f, children, i, total, dbg, depth)

CountChild(r, f, children, i, total, dbg, depth) ==
    IF r.k # "ok" THEN r
    ELSE CountChildren(f, children, i + 1, total + r.v, r.cur, dbg, depth)

\* root is find_table_root_page(table_name)?.
CountFromRoot(root, f, dbg) ==
    IF root.k # "ok" THEN root ELSE CountRecordsInBtree(f, root.v, dbg, 0)

ExecuteCountAll(f, table_name, dbg) ==
    CountFromRoot(FindTableRootPage(f, table_name, dbg), f, dbg)

\* gi is get_info()?; the root page is read with its page size.
RootPageWith(gi, f, root_page, dbg) ==
    IF gi.k # "ok" THEN gi ELSE BTreePageRead(f, root_page, gi.v.page_size, dbg)

\* root is find_table_root_page(table_name)?.
RootPageFrom(root, f, dbg) ==
    IF root.k # "ok" THEN root ELSE RootPageWith(GetInfo(f, dbg), f, root.v, dbg)

\* The first three statements of read_column and of read_all_columns.
ReadRootPage(f, table_name, dbg) ==
    RootPageFrom(FindTableRootPage(f, table_name, dbg), f, dbg)

\* p is the root page: values.push(format!("{}", i)) for every cell of a leaf.
ColumnValues(p) ==
    IF p.k # "ok" THEN p
    ELSE IF p.v.page_type = 13
    THEN OkC([i \in 1..p.v.num_cells |->
                 UToString(<<(i - 1) \div 256, (i - 1) % 256>>)], p.cur)
    ELSE OkC(<<>>, p.cur)

\* The column name is not looked at.
ReadColumn(f, table_name, column_name, dbg) ==
    ColumnValues(ReadRootPage(f, table_name, dbg))

\* "NULL"
NullText == <<78, 85, 76, 76>>

\* r is read_integer(type_code)?.
IntegerText(r) ==
    IF r.k # "ok" THEN r
    ELSE Ok([text |-> I64ToString(r.v.value), position |-> r.v.position])

\* r is read_float()?.
FloatText(r) ==
    IF r.k # "ok" THEN r
    ELSE Ok([text |-> F64ToString(r.v.value), position |-> r.v.position])

\* r is read_string_field(type_code)?: Some(s) => s, None => "NULL".
StringText(r) ==
    IF r.k # "ok" THEN r
    ELSE Ok([text |-> IF Len(r.v.value) = 1 THEN r.v.value[1] ELSE NullText,
             position |-> r.v.position])

\* let value = match type_code { 0 => .., 1..=6 => .., 7 => .., n if n >= 13 => .., _ => "?" }
ColumnText(data, position, type_code, tc) ==
    CASE tc = 0 -> Ok([text |-> NullText, position |-> position])
      [] tc \in 1..6 -> IntegerText(RecordReadInteger(data, position, type_code))
      [] tc = 7 -> FloatText(RecordReadFloat(data, position))
      [] tc >= 13 -> StringText(RecordReadStringField(data, position, type_code))
      [] OTHER -> Ok([text |-> <<63>>, position |-> position])

\* for &type_code in serial_types.iter().skip(1): types from index i on.
RECURSIVE RowValues(_, _, _, _, _)
RECURSIVE RowValuesPush(_, _, _, _, _)
RowValues(data, types, i, position, row) ==
    IF i > Len(types) THEN Ok(row)
    ELSE RowValuesPush(ColumnText(data, position, types[i], IntOf(types[i])),
                       data, types, i, row)

RowValuesPush(r, data, types, i, row) ==
    IF r.k # "ok" THEN r
    ELSE RowValues(data, types, i + 1, r.v.position, Append(row, r.v.text))

\* The position at which every value of the loop is read: the column loop of
\* read_all_columns with the position before each match recorded in offs.
RECURSIVE ColumnOffsets(_, _, _, _, _)
RECURSIVE ColumnOffsetsNext(_, _, _, _, _)
ColumnOffsets(data, types, i, position, offs) ==
    IF i > Len(types) THEN Ok(offs)
    ELSE ColumnOffsetsNext(ColumnText(data, position, types[i], IntOf(types[i])),
                           data, types, i, Append(offs, position))

ColumnOffsetsNext(r, data, types, i, offs) ==
    IF r.k # "ok" THEN r ELSE ColumnOffsets(data, types, i + 1, r.v.position, offs)

\* h is read_header()?; the first serial type is skipped.
OffsetsFrom(h, data) ==
    IF h.k # "ok" THEN h ELSE ColumnOffsets(data, h.v.types, 2, h.v.position, <<>>)

\* "|"
Bar == <<124>>

\* vals are the strings of the row; rows.push(row.join("|")).
CellJoined(vals, rowid) ==
    IF vals.k # "ok" THEN vals
    ELSE Ok([rowid |-> rowid, row |-> Join(vals.v, Bar)])

\* h is read_header()?; the row starts with rowid.to_string().
CellValues(h, cell_data, rowid) ==
    IF h.k # "ok" THEN h
    ELSE CellJoined(RowValues(cell_data, h.v.types, 2, h.v.position,
                              <<UToString(U64Bytes(rowid))>>), rowid)

\* rowid is the second read_varint()?.
CellHeader(rowid, cell_data, dbg) ==
    IF rowid.k # "ok" THEN rowid
    ELSE CellValues(RecordReadHeader(cell_data, rowid.v.position, dbg), cell_data,
                    rowid.v.value)

\* payload_length is the first read_varint()?.
CellRowid(payload_length, cell_data, dbg) ==
    IF payload_length.k # "ok" THEN payload_length
    ELSE CellHeader(RecordReadVarint(cell_data, payload_length.v.position, dbg),
                    cell_data, dbg)

\* One cell of read_all_columns: the rowid read and the row pushed.
CellRow(cell_data, dbg) == CellRowid(RecordReadVarint(cell_data, 0, dbg), cell_data, dbg)

\* for i in (0..page.num_cells()).rev()
RECURSIVE AllRowsLoop(_, _, _, _)
RECURSIVE AllRowsCell(_, _, _, _, _)
RECURSIVE AllRowsPush(_, _, _, _, _)
AllRowsLoop(page, i, rows, dbg) ==
    IF i < 0 THEN Ok(rows)
    ELSE AllRowsCell(GetCellData(page, i), page, i, rows, dbg)

\* c is page.get_cell_data(i)?.
AllRowsCell(c, page, i, rows, dbg) ==
    IF c.k # "ok" THEN c ELSE AllRowsPush(CellRow(c.v, dbg), page, i, rows, dbg)

AllRowsPush(r, page, i, rows, dbg) ==
    IF r.k # "ok" THEN r ELSE AllRowsLoop(page, i - 1, Append(rows, r.v), dbg)

\* p is the root page.
AllRowsOf(p, dbg) ==
    IF p.k # "ok" THEN p
    ELSE Lift(AllRowsLoop(p.v, p.v.num_cells - 1, <<>>, dbg), p.cur)

\* read_all_columns, each row with the rowid it was built from.
ReadAllRows(f, table_name, dbg) == AllRowsOf(ReadRootPage(f, table_name, dbg), dbg)

\* ExecuteResult::Values(rows)
RowsOnly(r) ==
    IF r.k # "ok" THEN r ELSE OkC([i \in 1..Len(r.v) |-> r.v[i].row], r.cur)

ReadAllColumns(f, table_name, dbg) == RowsOnly(ReadAllRows(f, table_name, dbg))

\* Expressions and statements of src/sqlite/statement.rs.
Asterisk == [kind |-> "Asterisk", name |-> <<>>, args |-> <<>>]
Column(name) == [kind |-> "Column", name |-> name, args |-> <<>>]
Function(name, args) == [kind |-> "Function", name |-> name, args |-> args]
Statement(selections, from_table) == [selections |-> selections, from_table |-> from_table]

\* "COUNT"
CountName == <<67, 79, 85, 78, 84>>

\* match &stmt.selections[0]; cur is the cursor before the call, left where
\* it was by a statement refused before any read.
ExecuteSelection(f, sel, from_table, cur, dbg) ==
    CASE sel.kind = "Function" ->
            IF ToUpper(sel.name) = CountName /\ Len(sel.args) = 1
               /\ sel.args[1].kind = "Asterisk"
            THEN ExecuteCountAll(f, from_table, dbg)
            ELSE ErrC("Unsupported function", cur)
      [] sel.kind = "Column" -> ReadColumn(f, from_table, sel.name, dbg)
      [] sel.kind = "Asterisk" -> ReadAllColumns(f, from_table, dbg)
      [] OTHER -> ErrC("Unsupported expression type", cur)

Execute(f, stmt, cur, dbg) ==
    IF Len(stmt.selections) = 0 THEN PanicC("index out of bounds: selections")
    ELSE ExecuteSelection(f, stmt.selections[1], stmt.from_table, cur, dbg)

----------------------------------------------------------------------------
(* Statement::parse: src/sqlite/statement.rs.  A SQL text is a sequence of  *)
(* character codes.                                                         *)

\* char::is_whitespace, is_alphabetic and is_alphanumeric on ASCII.
IsWhitespace(c) == c \in {9, 10, 11, 12, 13, 32}
IsAlphabetic(c) == c \in (65..90) \cup (97..122)
IsAlphanumeric(c) == IsAlphabetic(c) \/ c \in 48..57

Keyword(word) == [t |-> "Keyword", s |-> word]
Identifier(word) == [t |-> "Identifier", s |-> word]
Symbol(c) == [t |-> "Symbol", s |-> <<c>>]
FunctionToken(word) == [t |-> "Function", s |-> word]
AsteriskToken == [t |-> "Asterisk", s |-> <<>>]

\* "SELECT", "FROM"
SelectWord == <<83, 69, 76, 69, 67, 84>>
FromWord == <<70, 82, 79, 77>>

\* The index after the last alphanumeric character of the word starting at i.
RECURSIVE WordEnd(_, _)
WordEnd(sql, i) ==
    IF i <= Len(sql) /\ IsAlphanumeric(sql[i]) THEN WordEnd(sql, i + 1) ELSE i

\* The match on the word as written, without to_uppercase.
WordTokenAsWritten(word) ==
    CASE word \in {SelectWord, FromWord} -> Keyword(word)
      [] word = CountName -> FunctionToken(word)
      [] OTHER -> Identifier(word)

\* match word.to_uppercase().as_str(): the token keeps the word as written.
WordToken(word) ==
    CASE ToUpper(word) \in {SelectWord, FromWord} -> Keyword(word)
      [] ToUpper(word) = CountName -> FunctionToken(word)
      [] OTHER -> Identifier(word)

\* while let Some(&c) = chars.peek(): the characters from index i on.
RECURSIVE TokenizeFrom(_, _, _)
RECURSIVE TokenizeWord(_, _, _, _)
TokenizeFrom(sql, i, tokens) ==
    IF i > Len(sql) THEN Ok(tokens)
    ELSE IF IsWhitespace(sql[i]) THEN TokenizeFrom(sql, i + 1, tokens)
    ELSE IF IsAlphabetic(sql[i]) THEN TokenizeWord(sql, i, WordEnd(sql, i), tokens)
    ELSE IF sql[i] = 42 THEN TokenizeFrom(sql, i + 1, Append(tokens, AsteriskToken))
    ELSE IF sql[i] \in {40, 41}
    THEN TokenizeFrom(sql, i + 1, Append(tokens, Symbol(sql[i])))
    ELSE Err("Unexpected character")

\* The word is sql[i..end).
TokenizeWord(sql, i, end, tokens) ==
    TokenizeFrom(sql, end, Append(tokens, WordToken(SubSeq(sql, i, end - 1))))

Tokenize(sql) == TokenizeFrom(sql, 1, <<>>)

\* iter.next() is tokens[i]: Some(token) of kind t and text s.
NextIs(tokens, i, t, s) == i <= Len(tokens) /\ tokens[i] = [t |-> t, s |-> s]

\* let from_table = match iter.next() { Some(Token::Identifier(table)) => .. }
ParseFrom(tokens, i, selections) ==
    IF i <= Len(tokens) /\ tokens[i].t = "Identifier"
    THEN Ok(Statement(selections, tokens[i].s))
    ELSE Err("Expected table name after FROM")

\* while let Some(token) = iter.next(): the tokens from index i on.
RECURSIVE ParseSelections(_, _, _)
RECURSIVE ParseFunction(_, _, _)
ParseSelections(tokens, i, selections) ==
    IF i > Len(tokens) THEN ParseFrom(tokens, i, selections)
    ELSE IF tokens[i].t = "Function" THEN ParseFunction(tokens, i, selections)
    ELSE IF tokens[i].t = "Keyword" /\ ToUpper(tokens[i].s) = FromWord
    THEN ParseFrom(tokens, i + 1, selections)
    ELSE Err("Unexpected token in selections")

\* Token::Function(name) at i: '(' '*' ')' must follow.
ParseFunction(tokens, i, selections) ==
    IF ~NextIs(tokens, i + 1, "Symbol", <<40>>)
    THEN Err("Expected opening parenthesis after function")
    ELSE IF ~NextIs(tokens, i + 2, "Asterisk", <<>>)
    THEN Err("Expected * in function argument")
    ELSE IF ~NextIs(tokens, i + 3, "Symbol", <<41>>)
    THEN Err("Expected closing parenthesis")
    ELSE ParseSelections(tokens, i + 4,
                         Append(selections, Function(tokens[i].s, <<Asterisk>>)))

ParseTokens(tokens) ==
    IF Len(tokens) > 0 /\ tokens[1].t = "Keyword" /\ ToUpper(tokens[1].s) = SelectWord
    THEN ParseSelections(tokens, 2, <<>>)
    ELSE Err("Expected SELECT keyword")

\* tokens is Self::tokenize(sql)?.
ParseTokenized(tokens) == IF tokens.k # "ok" THEN tokens ELSE ParseTokens(tokens.v)

Parse(sql) == ParseTokenized(Tokenize(sql))

----------------------------------------------------------------------------
(* The standard SQLite varint encoding (the reader has no encoder; this is    *)
(* the big-endian format the files are written in).                          *)

BitLen(x) == IF x = {} THEN 0 ELSE 1 + CHOOSE m \in x : \A j \in x : j <= m

EncodeVarint(x) ==
    IF BitLen(x) > 56
    THEN [j \in 1..9 |-> IF j = 9 THEN Group(x, 0, 8)
                         ELSE 128 + Group(x, 8 + 7 * (8 - j), 7)]
    ELSE LET n == IF BitLen(x) = 0 THEN 1 ELSE (BitLen(x) + 6) \div 7 IN
         [j \in 1..n |-> (IF j < n THEN 128 ELSE 0) + Group(x, 7 * (n - j), 7)]

----------------------------------------------------------------------------
(* The file format the reader is given: header, pages, cells and records as  *)
(* laid out in the format notes of src/sqlite/db.rs and core/record.rs.      *)

\* The concatenation of seqs[lo], ..., seqs[hi], by halves.
RECURSIVE FlattenFrom(_, _, _)
FlattenFrom(seqs, lo, hi) ==
    IF lo > hi THEN <<>>
    ELSE IF lo = hi THEN seqs[lo]
    ELSE FlattenFrom(seqs, lo, (lo + hi) \div 2)
         \o FlattenFrom(seqs, (lo + hi) \div 2 + 1, hi)

Flatten(seqs) == FlattenFrom(seqs, 1, Len(seqs))

\* The length of the first n sequences together.
SumLen(seqs, n) == Len(FlattenFrom(seqs, 1, n))

Reverse(s) == [i \in 1..Len(s) |-> s[Len(s) + 1 - i]]

BE16(n) == <<n \div 256, n % 256>>
BE32(n) == <<n \div 16777216, (n \div 65536) % 256, (n \div 256) % 256, n % 256>>
Enc(n) == EncodeVarint(U64(n))

\* "SQLite format 3\0"
Magic == <<83, 81, 76, 105, 116, 101, 32, 102, 111, 114, 109, 97, 116, 32, 51, 0>>

DbHeader(magic, psize, npages) ==
    magic \o BE16(psize) \o <<1, 1, 0, 64, 32, 32>> \o BE32(1) \o BE32(npages)
    \o Zeros(12) \o BE32(4) \o Zeros(8) \o BE32(1) \o Zeros(40)

Null == [t |-> "null", b |-> <<>>]
Text(b) == [t |-> "text", b |-> b]
Int8(n) == [t |-> "int", b |-> <<n>>]

\* A big-endian integer of 1, 2, 3, 4, 6 or 8 bytes, a double, the constants
\* 0 and 1, a BLOB, and the reserved serial types.
IntN(b) == [t |-> "int", b |-> b]
Float(b) == [t |-> "float", b |-> b]
Zero == [t |-> "zero", b |-> <<>>]
One == [t |-> "one", b |-> <<>>]
Blob(b) == [t |-> "blob", b |-> b]
Reserved10 == [t |-> "reserved10", b |-> <<>>]
Reserved11 == [t |-> "reserved11", b |-> <<>>]

\* The serial type of an integer of w bytes.
IntType(w) == IF w <= 4 THEN w ELSE IF w = 6 THEN 5 ELSE 6

SerialType(v) ==
    CASE v.t = "null" -> 0
      [] v.t = "int" -> IntType(Len(v.b))
      [] v.t = "float" -> 7
      [] v.t = "zero" -> 8
      [] v.t = "one" -> 9
      [] v.t = "reserved10" -> 10
      [] v.t = "reserved11" -> 11
      [] v.t = "blob" -> 12 + 2 * Len(v.b)
      [] v.t = "text" -> 13 + 2 * Len(v.b)

\* header_length counts its own bytes: one up to 127, two beyond.
HeaderLength(types_len) == IF types_len + 1 <= 127 THEN types_len + 1 ELSE types_len + 2

\* header_length | serial types | values.
RecordBytes(values) ==
    LET types == Flatten([i \in 1..Len(values) |-> Enc(SerialType(values[i]))])
        body == Flatten([i \in 1..Len(values) |-> values[i].b])
    IN Enc(HeaderLength(Len(types))) \o types \o body

LeafCell(rowid, values) ==
    LET payload == RecordBytes(values) IN Enc(Len(payload)) \o Enc(rowid) \o payload

InteriorCell(left_child, key) == BE32(left_child) \o Enc(key)

\* A page of P bytes: prefix (the database header on page 1), page header,
\* cell pointer array in key order, free space, cell content.  layout "desc"
\* puts the first cell at the end of the page, "asc" puts it first.
BuildPage(P, prefix, ptype, cells, rightmost, layout) ==
    LET n == Len(cells)
        total == SumLen(cells, n)
        ptr(i) == IF layout = "desc" THEN P - SumLen(cells, i)
                  ELSE P - total + SumLen(cells, i - 1)
        content == IF layout = "desc" THEN Flatten(Reverse(cells)) ELSE Flatten(cells)
        head == prefix \o <<ptype>> \o BE16(0) \o BE16(n) \o BE16((P - total) % 65536)
                \o <<0>> \o (IF ptype \in {2, 5} THEN BE32(rightmost) ELSE <<>>)
                \o Flatten([i \in 1..n |-> BE16(ptr(i))])
    IN head \o Zeros(P - Len(head) - total) \o content

\* A sqlite_schema row.
SchemaRow(type, name, tbl_name, rootpage, sql) ==
    [type |-> type, name |-> name, tbl_name |-> tbl_name, rootpage |-> rootpage, sql |-> sql]

SchemaCell(rowid, row) ==
    LeafCell(rowid, <<Text(row.type), Text(row.name), Text(row.tbl_name),
                      Int8(row.rootpage), Text(row.sql)>>)

\* A page of a table or index B-tree, as described by a scenario.
PageDesc(ptype, cells, rightmost, layout) ==
    [ptype |-> ptype, cells |-> cells, rightmost |-> rightmost, layout |-> layout]

SchemaCells(s) == [i \in 1..Len(s.schema) |-> SchemaCell(i, s.schema[i])]

\* The leaves of a sqlite_schema B-tree whose root is an interior page: the
\* first row on one leaf, the other rows on a second, after all other pages.
SchemaLeaves(s) ==
    IF s.root = "interior"
    THEN <<BuildPage(s.P, <<>>, 13, SubSeq(SchemaCells(s), 1, 1), 0, "desc"),
           BuildPage(s.P, <<>>, 13, SubSeq(SchemaCells(s), 2, Len(s.schema)), 0, "desc")>>
    ELSE <<>>

\* Page 1: the database header, then the root of sqlite_schema, a leaf with
\* every row or an interior page over the two leaves.
SchemaRoot(s, npages) ==
    IF s.root = "interior"
    THEN BuildPage(s.P, DbHeader(s.magic, s.psize, npages), 5,
                   <<InteriorCell(npages - 1, 1)>>, npages, "desc")
    ELSE BuildPage(s.P, DbHeader(s.magic, s.psize, npages), 13, SchemaCells(s),
                   0, "desc")

\* The file of a scenario: page 1 with the schema root, then the other pages,
\* cut to scn.cut bytes.
BuildFile(s) ==
    LET rest == [i \in 1..Len(s.pages) |->
                    BuildPage(s.P, <<>>, s.pages[i].ptype, s.pages[i].cells,
                              s.pages[i].rightmost, s.pages[i].layout)]
        leaves == SchemaLeaves(s)
        all == SchemaRoot(s, 1 + Len(s.pages) + Len(leaves)) \o Flatten(rest)
               \o Flatten(leaves)
    IN IF s.cut < Len(all) THEN SubSeq(all, 1, s.cut) ELSE all

----------------------------------------------------------------------------
(* The database files the operations are run on. *)

MaxRows == 2

TypeTable == <<116, 97, 98, 108, 101>>
TypeIndex == <<105, 110, 100, 101, 120>>
NameT == <<116>>
NameSeq == SqlitePrefix \o <<115, 101, 113, 117, 101, 110, 99, 101>>
NameIdx == <<105, 100, 120>>
NameAB == <<97, 32, 98>>
NameNoSuch == <<110, 111, 115, 117, 99, 104>>
ColName == <<110, 97, 109, 101>>
\* "id"
NameId == <<105, 100>>

\* CREATE TABLE t(id integer primary key,name text)
SqlT == <<67, 82, 69, 65, 84, 69, 32, 84, 65, 66, 76, 69, 32, 116, 40, 105, 100, 32,
          105, 110, 116, 101, 103, 101, 114, 32, 112, 114, 105, 109, 97, 114, 121, 32,
          107, 101, 121, 44, 110, 97, 109, 101, 32, 116, 101, 120, 116, 41>>
\* CREATE TABLE sqlite_sequence(name,seq)
SqlSeq == <<67, 82, 69, 65, 84, 69, 32, 84, 65, 66, 76, 69, 32, 115, 113, 108, 105,
            116, 101, 95, 115, 101, 113, 117, 101, 110, 99, 101, 40, 110, 97, 109, 101,
            44, 115, 101, 113, 41>>
\* CREATE INDEX idx ON t(name)
SqlIdx == <<67, 82, 69, 65, 84, 69, 32, 73, 78, 68, 69, 88, 32, 105, 100, 120, 32, 79,
            78, 32, 116, 40, 110, 97, 109, 101, 41>>
\* CREATE TABLE "a b"(x)
SqlAB == <<67, 82, 69, 65, 84, 69, 32, 84, 65, 66, 76, 69, 32, 34, 97, 32, 98, 34, 40,
           120, 41>>

\* CREATE TABLE a(x)
NameA == <<97>>
SqlA == <<67, 82, 69, 65, 84, 69, 32, 84, 65, 66, 76, 69, 32, 97, 40, 120, 41>>
\* CREATE INDEX tx ON a(x)
NameTx == <<116, 120>>
SqlTx == <<67, 82, 69, 65, 84, 69, 32, 73, 78, 68, 69, 88, 32, 116, 120, 32, 79, 78, 32,
           97, 40, 120, 41>>

RowT(root) == SchemaRow(TypeTable, NameT, NameT, root, SqlT)
RowA(root) == SchemaRow(TypeTable, NameA, NameA, root, SqlA)
RowTx(root) == SchemaRow(TypeIndex, NameTx, NameA, root, SqlTx)
RowSeq(root) == SchemaRow(TypeTable, NameSeq, NameSeq, root, SqlSeq)
RowIdx(root) == SchemaRow(TypeIndex, NameIdx, NameT, root, SqlIdx)
RowAB(root) == SchemaRow(TypeTable, NameAB, NameAB, root, SqlAB)

\* Row k of table t: (id = rowid k stored as NULL, name = k letters).
TValues(k) == <<Null, Text([i \in 1..k |-> 119 + k])>>
TRow(k) == LeafCell(k, TValues(k))

\* Row k of table a, which has no alias of the rowid: (x = k + 1 letters).
AValues(k) == <<Text([i \in 1..(k + 1) |-> 103 + k])>>
ARows(n) == [k \in 1..n |-> LeafCell(k, AValues(k))]
TRows(lo, hi) == [i \in 1..(hi - lo + 1) |-> TRow(lo + i - 1)]

\* The B-tree of table t, rooted at page 2: a leaf root with 0..MaxRows rows,
\* or an interior root over two leaves.
Trees ==
    {[kind |-> "leaf", layout |-> l, rows |-> n,
      pages |-> <<PageDesc(13, TRows(1, n), 0, l)>>] :
        n \in 0..MaxRows, l \in {"desc"}}
    \cup {[kind |-> "leaf", layout |-> "asc", rows |-> n,
           pages |-> <<PageDesc(13, TRows(1, n), 0, "asc")>>] : n \in 2..MaxRows}
    \cup {[kind |-> "interior", layout |-> "desc", rows |-> n + 1,
           pages |-> <<PageDesc(5, <<InteriorCell(3, n)>>, 4, "desc"),
                       PageDesc(13, TRows(1, n), 0, "desc"),
                       PageDesc(13, TRows(n + 1, n + 1), 0, "desc")>>] :
              n \in 1..MaxRows}

\* The schemas: table t alone, or with one more object rooted at page b.
Schemas(b) ==
    {<<RowT(2)>>, <<RowT(2), RowSeq(b)>>, <<RowT(2), RowIdx(b)>>, <<RowT(2), RowAB(b)>>}

\* The (empty) root pages of the objects after t.
ExtraPages(schema) ==
    [i \in 1..(Len(schema) - 1) |->
        PageDesc(IF schema[i + 1].type = TypeIndex THEN 10 ELSE 13, <<>>, 0, "desc")]

\* "SQLite format 4\0"
BadMagic == [Magic EXCEPT ![15] = 52]

Scenario(P, magic, psize, schema, tree, cut, valid) ==
    [P |-> P, magic |-> magic, psize |-> psize, schema |-> schema,
     pages |-> tree.pages \o ExtraPages(schema), cut |-> cut, valid |-> valid,
     kind |-> tree.kind, layout |-> tree.layout, rows |-> tree.rows,
     root |-> "leaf", arows |-> 0]

\* The same database with sqlite_schema grown to an interior root.
InteriorRoot(s) == [s EXCEPT !.root = "interior"]

\* The same database with n rows in table a, whose root leaf is page p.
WithRowsOfA(s, p, n) ==
    [s EXCEPT !.arows = n, !.pages[p - 1] = PageDesc(13, ARows(n), 0, "desc")]

NoTree == [kind |-> "none", layout |-> "desc", rows |-> 0, pages |-> <<>>]

\* Well-formed databases of page size 512, and the same files with a wrong
\* magic string.
Regular ==
    UNION {{Scenario(512, m, 512, sch, tree, 65536, m = Magic) :
                m \in {Magic, BadMagic}, sch \in Schemas(2 + Len(tree.pages))} :
           tree \in Trees}

Special ==
    {   \* an empty database
        Scenario(512, Magic, 512, <<>>, NoTree, 65536, TRUE),
        \* an empty database of page size 65536, stored as 1
        Scenario(65536, Magic, 1, <<>>, NoTree, 65536, TRUE),
        \* 100 bytes: the header alone, declaring pages of 100 and of 512 bytes
        Scenario(512, Magic, 100, <<>>, NoTree, 100, FALSE),
        Scenario(512, Magic, 512, <<>>, NoTree, 100, FALSE),
        \* cut at byte 150 while declaring page size 4096
        Scenario(512, Magic, 4096, <<RowT(2)>>, NoTree, 150, FALSE),
        \* table t as an interior root with two cells over three leaves
        Scenario(512, Magic, 512, <<RowT(2)>>,
                 [kind |-> "interior", layout |-> "desc", rows |-> 3,
                  pages |-> <<PageDesc(5, <<InteriorCell(3, 1), InteriorCell(4, 2)>>,
                                       5, "desc"),
                              PageDesc(13, TRows(1, 1), 0, "desc"),
                              PageDesc(13, TRows(2, 2), 0, "desc"),
                              PageDesc(13, TRows(3, 3), 0, "desc")>>], 65536, TRUE),
        \* sqlite_schema with an interior root over two leaves
        InteriorRoot(Scenario(512, Magic, 512, <<RowT(2), RowAB(3)>>,
                 [kind |-> "leaf", layout |-> "desc", rows |-> 1,
                  pages |-> <<PageDesc(13, TRows(1, 1), 0, "desc")>>], 65536, TRUE)),
        \* table a and its index tx created before table t
        Scenario(512, Magic, 512, <<RowA(4), RowTx(3), RowT(2)>>,
                 [kind |-> "leaf", layout |-> "desc", rows |-> 1,
                  pages |-> <<PageDesc(13, TRows(1, 1), 0, "desc")>>], 65536, TRUE),
        \* table t and table a, one row in each
        WithRowsOfA(Scenario(512, Magic, 512, <<RowT(2), RowA(3)>>,
                 [kind |-> "leaf", layout |-> "desc", rows |-> 1,
                  pages |-> <<PageDesc(13, TRows(1, 1), 0, "desc")>>], 65536, TRUE),
                    3, 1),
        \* a rootpage of 0
        Scenario(512, Magic, 512, <<RowT(0)>>,
                 [kind |-> "leaf", layout |-> "desc", rows |-> 1,
                  pages |-> <<PageDesc(13, TRows(1, 1), 0, "desc")>>], 65536, FALSE)
    }

Scenarios == Regular \cup Special

----------------------------------------------------------------------------
(* Database specification: the operations of SQLiteDatabase on one file. *)

MaxCalls == 2

CountLower == <<99, 111, 117, 110, 116>>

CountStmt == Statement(<<Function(CountName, <<Asterisk>>)>>, NameT)
StarStmt == Statement(<<Asterisk>>, NameT)
StarStmtA == Statement(<<Asterisk>>, NameA)
ColumnStmt == Statement(<<Column(ColName)>>, NameT)
TwoColumnStmt == Statement(<<Column(NameId), Column(ColName)>>, NameT)
UnknownColumnStmt == Statement(<<Column(NameNoSuch)>>, NameT)

\* The statements run: COUNT(*) in both cases, * on two tables, one column,
\* two columns, a column t has not, a missing table and an empty select list.
Stmts ==
    {CountStmt, StarStmt, StarStmtA, ColumnStmt, TwoColumnStmt, UnknownColumnStmt,
     Statement(<<Function(CountLower, <<Asterisk>>)>>, NameT),
     Statement(<<Function(CountName, <<Asterisk>>)>>, NameNoSuch),
     Statement(<<>>, NameT)}

NoOp == [name |-> "none", stmt |-> Statement(<<>>, <<>>)]

\* No record handed to the record decoder, nothing returned by it.
NoRecord == [kind |-> "none"]
NoRead == [op |-> "none", k |-> "none", e |-> "", v |-> <<>>]

\* No text handed to the parser, nothing returned by it.
NoSource == [kind |-> "none"]
NoParse == [k |-> "none", v |-> Statement(<<>>, <<>>), e |-> ""]

\* No traversal under way.
Idle == [k |-> "idle", page |-> 0, r |-> [k |-> "ok", v |-> 0, e |-> "", cur |-> 0]]

Init ==
    /\ debug \in BOOLEAN
    /\ scn \in Scenarios
    /\ file = BuildFile(scn)
    /\ cursor = 0
    /\ calls = 0
    /\ op = NoOp
    /\ result = OkC(0, 0)
    /\ vsrc = [kind |-> "raw", x |-> {}]
    /\ vbuf = <<>>
    /\ vres = [op |-> "none", k |-> "none", value |-> {}, size |-> 0, e |-> ""]
    /\ rsrc = NoRecord /\ rbuf = <<>> /\ rres = NoRead
    /\ psrc = NoSource /\ ptext = <<>> /\ parsed = NoParse
    /\ frames = <<>> /\ call = Idle /\ dbinfo = Idle.r

\* A panic ends the process; an instance serves a bounded number of calls.
CanCall == calls < MaxCalls /\ result.k # "panic"

DoGetInfo ==
    /\ CanCall
    /\ LET r == GetInfo(file, debug) IN
       /\ result' = r
       /\ cursor' = r.cur
    /\ op' = [name |-> "get_info", stmt |-> Statement(<<>>, <<>>)]
    /\ calls' = calls + 1
    /\ UNCHANGED <<file, scn, debug>>
    /\ UNCHANGED vvars
    /\ UNCHANGED rvars
    /\ UNCHANGED pvars
    /\ UNCHANGED cvars

DoListTables ==
    /\ CanCall
    /\ LET r == ListTables(file, debug) IN
       /\ result' = r
       /\ cursor' = r.cur
    /\ op' = [name |-> "list_tables", stmt |-> Statement(<<>>, <<>>)]
    /\ calls' = calls + 1
    /\ UNCHANGED <<file, scn, debug>>
    /\ UNCHANGED vvars
    /\ UNCHANGED rvars
    /\ UNCHANGED pvars
    /\ UNCHANGED cvars

DoExecute ==
    /\ CanCall
    /\ \E stmt \in Stmts :
        /\ LET r == Execute(file, stmt, cursor, debug) IN
           /\ result' = r
           /\ cursor' = r.cur
        /\ op' = [name |-> "execute", stmt |-> stmt]
    /\ calls' = calls + 1
    /\ UNCHANGED <<file, scn, debug>>
    /\ UNCHANGED vvars
    /\ UNCHANGED rvars
    /\ UNCHANGED pvars
    /\ UNCHANGED cvars

Next == DoGetInfo \/ DoListTables \/ DoExecute

Spec == Init /\ [][Next]_vars

----------------------------------------------------------------------------
(* Varint specification: the decoders applied to a buffer. *)

MaxRawLen == 3
MaxRunLen == 11

RawBytes == {0, 1, 127, 128, 129, 255}

RECURSIVE SeqsUpTo(_, _)
SeqsUpTo(S, n) ==
    IF n = 0 THEN {<<>>}
    ELSE LET shorter == SeqsUpTo(S, n - 1) IN
         shorter \cup {Append(s, b) : s \in {t \in shorter : Len(t) = n - 1}, b \in S}

\* Values whose encodings have every length 1..9.
EncValues ==
    {{k} : k \in 0..63} \cup {0..(k - 1) : k \in 0..64} \cup {U64(n) : n \in {5, 129, 300, 16384}}

\* Buffers of continuation bytes only, up to and beyond nine bytes.
Runs == {[i \in 1..n |-> b] : n \in 4..MaxRunLen, b \in {128, 255}}

VInit ==
    /\ debug \in BOOLEAN
    /\ \/ \E x \in EncValues :
            /\ vsrc = [kind |-> "enc", x |-> x]
            /\ vbuf = EncodeVarint(x)
       \/ \E b \in SeqsUpTo(RawBytes, MaxRawLen) \cup Runs :
            /\ vsrc = [kind |-> "raw", x |-> {}]
            /\ vbuf = b
    /\ vres = [op |-> "none", k |-> "none", value |-> {}, size |-> 0, e |-> ""]
    /\ file = <<>> /\ scn = <<>> /\ cursor = 0 /\ calls = 0
    /\ op = NoOp /\ result = OkC(0, 0)
    /\ rsrc = NoRecord /\ rbuf = <<>> /\ rres = NoRead
    /\ psrc = NoSource /\ ptext = <<>> /\ parsed = NoParse
    /\ frames = <<>> /\ call = Idle /\ dbinfo = Idle.r

\* Varint::read_varint and Varint::varint_size on the whole buffer.
VDecode ==
    /\ vres.op = "none"
    /\ LET r == ReadVarint(vbuf, 0, debug) IN
       vres' = [op |-> "read_varint", k |-> r.k,
                value |-> IF r.k = "ok" THEN r.v ELSE {},
                size |-> VarintSize(vbuf, 0), e |-> r.e]
    /\ UNCHANGED <<vsrc, vbuf, debug>>
    /\ UNCHANGED dbvars
    /\ UNCHANGED rvars
    /\ UNCHANGED pvars
    /\ UNCHANGED cvars

\* Record::read_varint at position 0 of a record over the buffer.
VRecordRead ==
    /\ vres.op = "none"
    /\ LET r == RecordReadVarint(vbuf, 0, debug) IN
       vres' = [op |-> "record_read_varint", k |-> r.k,
                value |-> IF r.k = "ok" THEN r.v.value ELSE {},
                size |-> IF r.k = "ok" THEN r.v.position ELSE 0, e |-> r.e]
    /\ UNCHANGED <<vsrc, vbuf, debug>>
    /\ UNCHANGED dbvars
    /\ UNCHANGED rvars
    /\ UNCHANGED pvars
    /\ UNCHANGED cvars

\* BTreePage::read_varint at position 0 of a page holding the buffer.
VBTreeRead ==
    /\ vres.op = "none"
    /\ LET r == BTreeReadVarint(vbuf, 0) IN
       vres' = [op |-> "btree_read_varint", k |-> r.k,
                value |-> IF r.k = "ok" THEN r.v.value ELSE {},
                size |-> IF r.k = "ok" THEN r.v.position ELSE 0, e |-> r.e]
    /\ UNCHANGED <<vsrc, vbuf, debug>>
    /\ UNCHANGED dbvars
    /\ UNCHANGED rvars
    /\ UNCHANGED pvars
    /\ UNCHANGED cvars

VNext == VDecode \/ VRecordRead \/ VBTreeRead

VarintSpec == VInit /\ [][VNext]_vars

----------------------------------------------------------------------------
(* Record specification: the record decoder applied to the bytes of a field *)
(* or of a table leaf cell.                                                  *)

MaxCols == 3

\* The serial-type size table of the file format.
SizeOf(st) ==
    CASE st \in {0, 8, 9, 10, 11} -> 0
      [] st \in 1..4 -> st
      [] st = 5 -> 6
      [] st \in {6, 7} -> 8
      [] st >= 12 /\ st % 2 = 0 -> (st - 12) \div 2
      [] OTHER -> (st - 13) \div 2

\* An integer field of serial type tc: a first byte and w - 1 equal bytes,
\* the last cut bytes missing.
IntField(tc, first, others, cut) ==
    [kind |-> "int", tc |-> tc, cut |-> cut,
     bytes |-> <<first>> \o [i \in 1..(SizeOf(tc) - 1) |-> others]]

IntFields ==
    {IntField(tc, first, others, cut) :
        tc \in 1..6, first \in {0, 5, 127, 128, 255}, others \in {0, 255}, cut \in {0, 1}}

\* A table leaf cell of rowid 1 holding values, the last cut bytes missing;
\* start is the position of the record header, after the two varints.
Row(values, cut) ==
    [kind |-> "row", values |-> values, cut |-> cut,
     start |-> Len(Enc(Len(RecordBytes(values)))) + 1,
     bytes |-> LeafCell(1, values)]

\* 1.0
FloatOne == <<63, 240, 0, 0, 0, 0, 0, 0>>

\* The values of the columns of the narrow rows.
NarrowValues ==
    {Null, IntN(<<5>>), IntN(<<255, 254>>), Text(<<120, 121>>), Blob(<<7>>), Zero, One,
     Reserved10, Float(FloatOne)}

\* Rows of 126, 127 and 128 NULL columns: header_length 127, 129 and 130.
WideCols == {126, 127, 128}

\* A text of 60 bytes has the two-byte serial type 133; a BLOB that is not
\* UTF-8; the other reserved type.
OtherRows ==
    {<<Null, Text([i \in 1..60 |-> 120])>>, <<Null, Blob(<<255>>), Text(<<120>>)>>,
     <<Null, Reserved11>>}
    \cup {[i \in 1..n |-> Null] : n \in WideCols}

Rows ==
    {Row(values, cut) :
        values \in (SeqsUpTo(NarrowValues, MaxCols) \ {<<>>}) \cup OtherRows,
        cut \in {0, 1}}

RInit ==
    /\ debug \in BOOLEAN
    /\ rsrc \in IntFields \cup Rows
    /\ rbuf = SubSeq(rsrc.bytes, 1, Len(rsrc.bytes) - rsrc.cut)
    /\ rres = NoRead
    /\ file = <<>> /\ scn = <<>> /\ cursor = 0 /\ calls = 0
    /\ op = NoOp /\ result = OkC(0, 0)
    /\ vsrc = [kind |-> "raw", x |-> {}] /\ vbuf = <<>>
    /\ vres = [op |-> "none", k |-> "none", value |-> {}, size |-> 0, e |-> ""]
    /\ psrc = NoSource /\ ptext = <<>> /\ parsed = NoParse
    /\ frames = <<>> /\ call = Idle /\ dbinfo = Idle.r

\* Record::new(field).read_integer(type_code)
RReadInteger ==
    /\ rres.op = "none" /\ rsrc.kind = "int"
    /\ LET r == RecordReadInteger(rbuf, 0, U64(rsrc.tc)) IN
       rres' = [op |-> "read_integer", k |-> r.k, e |-> r.e, v |-> r.v]
    /\ UNCHANGED <<rsrc, rbuf, debug>>
    /\ UNCHANGED dbvars
    /\ UNCHANGED vvars
    /\ UNCHANGED pvars
    /\ UNCHANGED cvars

\* Record::read_header of a record over the cell, positioned after the
\* payload length and the rowid.
RReadHeader ==
    /\ rres.op = "none" /\ rsrc.kind = "row"
    /\ LET r == RecordReadHeader(rbuf, rsrc.start, debug) IN
       rres' = [op |-> "read_header", k |-> r.k, e |-> r.e, v |-> r.v]
    /\ UNCHANGED <<rsrc, rbuf, debug>>
    /\ UNCHANGED dbvars
    /\ UNCHANGED vvars
    /\ UNCHANGED pvars
    /\ UNCHANGED cvars

\* One turn of the cell loop of read_all_columns on the cell, for the rows of
\* at most MaxCols + 1 columns.
RReadRow ==
    /\ rres.op = "none" /\ rsrc.kind = "row" /\ Len(rsrc.values) <= MaxCols + 1
    /\ LET r == CellRow(rbuf, debug) IN
       rres' = [op |-> "read_row", k |-> r.k, e |-> r.e, v |-> r.v]
    /\ UNCHANGED <<rsrc, rbuf, debug>>
    /\ UNCHANGED dbvars
    /\ UNCHANGED vvars
    /\ UNCHANGED pvars
    /\ UNCHANGED cvars

RNext == RReadInteger \/ RReadHeader \/ RReadRow

RecordSpec == RInit /\ [][RNext]_vars

----------------------------------------------------------------------------
(* Statement specification: the SQL command of the CLI.  The text is parsed, *)
(* the database is opened and the statement is executed on it.              *)

MaxItems == 2

ToLower(s) == [i \in 1..Len(s) |-> IF s[i] \in 65..90 THEN s[i] + 32 ELSE s[i]]

\* A word in upper case, in lower case, or with the two alternating.
Cased(word, c) ==
    CASE c = "upper" -> ToUpper(word)
      [] c = "lower" -> ToLower(word)
      [] OTHER -> [i \in 1..Len(word) |->
                      IF i % 2 = 1 THEN ToUpper(word)[i] ELSE ToLower(word)[i]]

Cases == {"upper", "lower", "mixed"}

\* The text of an item of a select list: *, name, NAME(*) or NAME(arg).
ItemText(item, spaced) ==
    CASE item.kind = "Asterisk" -> <<42>>
      [] item.kind = "Column" -> item.name
      [] OTHER -> item.name \o (IF spaced THEN <<32, 40, 32>> ELSE <<40>>)
                  \o (IF item.args[1].kind = "Asterisk" THEN <<42>> ELSE item.args[1].name)
                  \o (IF spaced THEN <<32, 41>> ELSE <<41>>)

\* SELECT items FROM table tail, the items separated by sep.
Sentence(select, items, sep, from, table, tail, spaced) ==
    select \o <<32>> \o Join([i \in 1..Len(items) |-> ItemText(items[i], spaced)], sep)
    \o (IF Len(items) = 0 THEN <<>> ELSE <<32>>) \o from \o <<32>> \o table \o tail

Comma(spaced) == IF spaced THEN <<32, 44, 32>> ELSE <<44>>

\* A statement of the grammar
\*   Statement := 'SELECT' Item (',' Item)* 'FROM' Identifier
\* written from its items and its table.
Derived(items, table, c1, c2, spaced) ==
    [kind |-> "statement", items |-> items, table |-> table,
     text |-> Sentence(Cased(SelectWord, c1), items, Comma(spaced),
                       Cased(FromWord, c2), table, <<>>, spaced)]

\* The same with tokens after the table name, without a select list, or with
\* the items separated by spaces alone.
WithTail(items, table, tail) ==
    [kind |-> "extra", items |-> items, table |-> table,
     text |-> Sentence(SelectWord, items, <<44>>, FromWord, table, tail, FALSE)]

NoList(table) ==
    [kind |-> "nolist", items |-> <<>>, table |-> table,
     text |-> Sentence(SelectWord, <<>>, <<44>>, FromWord, table, <<>>, FALSE)]

NoCommas(items, table) ==
    [kind |-> "nocomma", items |-> items, table |-> table,
     text |-> Sentence(SelectWord, items, <<32>>, FromWord, table, <<>>, FALSE)]

Raw(text) == [kind |-> "raw", items |-> <<>>, table |-> <<>>, text |-> text]

\* "T1"
NameT1 == <<84, 49>>

Tables == {NameT, NameT1, NameNoSuch}

CountCalls == {Function(Cased(CountName, c), <<Asterisk>>) : c \in Cases}

Items == {Asterisk, Column(ColName), Function(CountName, <<Column(ColName)>>)}
         \cup CountCalls

\* Select lists of 2..MaxItems items.
ItemLists == {l \in SeqsUpTo(Items, MaxItems) : Len(l) >= 2}

\* " x", " )", " FROM t"
Tails == {<<32, 120>>, <<32, 41>>, <<32>> \o FromWord \o <<32>> \o NameT}

\* Texts that are no statement of the grammar.
RawTexts ==
    {\* ""
     <<>>,
    \* "FROM t"
     <<70, 82, 79, 77, 32, 116>>,
    \* "INSERT INTO t"
     <<73, 78, 83, 69, 82, 84, 32, 73, 78, 84, 79, 32, 116>>,
    \* "SELECT SELECT FROM t"
     <<83, 69, 76, 69, 67, 84, 32, 83, 69, 76, 69, 67, 84, 32, 70, 82, 79, 77, 32, 116>>,
    \* "SELECT COUNT(*)"
     <<83, 69, 76, 69, 67, 84, 32, 67, 79, 85, 78, 84, 40, 42, 41>>,
    \* "SELECT COUNT(*) FROM"
     <<83, 69, 76, 69, 67, 84, 32, 67, 79, 85, 78, 84, 40, 42, 41, 32, 70, 82, 79, 77>>,
    \* "SELECT COUNT(*) FROM count"
     <<83, 69, 76, 69, 67, 84, 32, 67, 79, 85, 78, 84, 40, 42, 41, 32, 70, 82, 79, 77, 32, 99, 111, 117, 110, 116>>,
    \* "SELECT COUNT(*) FROM 1t"
     <<83, 69, 76, 69, 67, 84, 32, 67, 79, 85, 78, 84, 40, 42, 41, 32, 70, 82, 79, 77, 32, 49, 116>>,
    \* "SELECT COUNT(*) FROM t;"
     <<83, 69, 76, 69, 67, 84, 32, 67, 79, 85, 78, 84, 40, 42, 41, 32, 70, 82, 79, 77, 32, 116, 59>>,
    \* "SELECT COUNT * FROM t"
     <<83, 69, 76, 69, 67, 84, 32, 67, 79, 85, 78, 84, 32, 42, 32, 70, 82, 79, 77, 32, 116>>,
    \* "SELECT COUNT(* FROM t"
     <<83, 69, 76, 69, 67, 84, 32, 67, 79, 85, 78, 84, 40, 42, 32, 70, 82, 79, 77, 32, 116>>,
    \* "SELECT MAX(*) FROM t"
     <<83, 69, 76, 69, 67, 84, 32, 77, 65, 88, 40, 42, 41, 32, 70, 82, 79, 77, 32, 116>>}


Sources ==
    {Derived(<<item>>, table, c1, c2, spaced) :
        item \in Items, table \in Tables, c1 \in Cases, c2 \in Cases, spaced \in BOOLEAN}
    \cup {Derived(items, NameT, "upper", "upper", spaced) :
            items \in ItemLists, spaced \in BOOLEAN}
    \cup {WithTail(<<item>>, NameT, tail) : item \in Items, tail \in Tails}
    \cup {NoList(table) : table \in Tables}
    \cup {NoCommas(items, NameT) : items \in ItemLists}
    \cup {Raw(text) : text \in RawTexts}

\* The databases the statements are run on: table t on a leaf root with two
\* rows, and on an interior root.
Databases ==
    {s \in Regular : s.valid /\ s.schema = <<RowT(2)>> /\ s.layout = "desc"
                     /\ s.rows = 2}

PInit ==
    /\ debug \in BOOLEAN
    /\ psrc \in Sources
    /\ ptext = psrc.text
    /\ parsed = NoParse
    /\ scn \in Databases
    /\ file = BuildFile(scn)
    /\ cursor = 0 /\ calls = 0
    /\ op = NoOp /\ result = OkC(0, 0)
    /\ vsrc = [kind |-> "raw", x |-> {}] /\ vbuf = <<>>
    /\ vres = [op |-> "none", k |-> "none", value |-> {}, size |-> 0, e |-> ""]
    /\ rsrc = NoRecord /\ rbuf = <<>> /\ rres = NoRead
    /\ frames = <<>> /\ call = Idle /\ dbinfo = Idle.r

\* let statement = sqlite::statement::Statement::parse(&sql)?;
PParse ==
    /\ parsed.k = "none"
    /\ parsed' = Parse(ptext)
    /\ UNCHANGED <<psrc, ptext, debug>>
    /\ UNCHANGED dbvars
    /\ UNCHANGED vvars
    /\ UNCHANGED rvars
    /\ UNCHANGED cvars

\* let mut db = SQLiteDatabase::open(&args.file)?; db.execute(&statement)?
PExecute ==
    /\ parsed.k = "ok" /\ calls = 0
    /\ LET r == Execute(file, parsed.v, 0, debug) IN
       /\ result' = r
       /\ cursor' = r.cur
    /\ op' = [name |-> "execute", stmt |-> parsed.v]
    /\ calls' = 1
    /\ UNCHANGED <<file, scn, debug>>
    /\ UNCHANGED pvars
    /\ UNCHANGED cvars
    /\ UNCHANGED vvars
    /\ UNCHANGED rvars

PNext == PParse \/ PExecute

ParseSpec == PInit /\ [][PNext]_vars

----------------------------------------------------------------------------
(* Page specification: BTreePage::read on the open file of a database of    *)
(* three pages of 512 bytes, whole or cut short.                            *)

MaxPageNum == 4

PageSizes == {512, 1024}

FileLengths == {0, 100, 512, 700, 1024, 1536}

PageFiles ==
    {Scenario(512, Magic, 512, <<RowT(2), RowAB(3)>>,
              [kind |-> "leaf", layout |-> "desc", rows |-> 1,
               pages |-> <<PageDesc(13, TRows(1, 1), 0, "desc")>>], cut, cut = 1536) :
        cut \in FileLengths}

BInit ==
    /\ debug \in BOOLEAN
    /\ scn \in PageFiles
    /\ file = BuildFile(scn)
    /\ cursor = 0 /\ calls = 0
    /\ op = NoOp /\ result = OkC(0, 0)
    /\ vsrc = [kind |-> "raw", x |-> {}] /\ vbuf = <<>>
    /\ vres = [op |-> "none", k |-> "none", value |-> {}, size |-> 0, e |-> ""]
    /\ rsrc = NoRecord /\ rbuf = <<>> /\ rres = NoRead
    /\ psrc = NoSource /\ ptext = <<>> /\ parsed = NoParse
    /\ frames = <<>> /\ call = Idle /\ dbinfo = Idle.r

\* BTreePage::read(&mut file, page_num, page_size)
BRead ==
    /\ calls < MaxCalls
    /\ \E page_num \in 1..MaxPageNum, page_size \in PageSizes :
        /\ LET r == BTreePageRead(file, page_num, page_size, debug) IN
           /\ result' = r
           /\ cursor' = r.cur
        /\ op' = [name |-> "read", page_num |-> page_num, page_size |-> page_size]
    /\ calls' = calls + 1
    /\ UNCHANGED <<file, scn, debug>>
    /\ UNCHANGED vvars
    /\ UNCHANGED rvars
    /\ UNCHANGED pvars
    /\ UNCHANGED cvars

BNext == BRead

PageSpec == BInit /\ [][BNext]_vars

----------------------------------------------------------------------------
(* Traversal specification: count_records_in_btree as the steps of its      *)
(* recursion.  frames holds one frame per call that is inside its child     *)
(* loop; call is the call being entered or the value being returned.  The   *)
(* thread's stack holds StackFrames frames: one call more overflows it and  *)
(* the process is aborted.                                                  *)

StackFrames == 4

Calling(page_num) == [k |-> "call", page |-> page_num, r |-> OkC(0, 0)]
Returning(r) == [k |-> "ret", page |-> 0, r |-> r]
Descending(children, cur) == [k |-> "descend", page |-> 0, r |-> OkC(children, cur)]
Returned(r) == [k |-> "done", page |-> 0, r |-> r]
Overflown == [k |-> "overflow", page |-> 0, r |-> OkC(0, 0)]

Frame(children, i, total) == [children |-> children, i |-> i, total |-> total]

\* c is page.get_child_pages()?.
VisitChildren(c, cur) ==
    IF c.k # "ok" THEN Returning(Lift(c, cur)) ELSE Descending(c.v, cur)

\* match page.page_type() { 13 => .., 5 => .., pt => Err }, up to the loop.
VisitPage(p) ==
    IF p.k # "ok" THEN Returning(p)
    ELSE CASE p.v.page_type = 13 -> Returning(OkC(p.v.num_cells, p.cur))
           [] p.v.page_type = 5 -> VisitChildren(GetChildPages(p.v), p.cur)
           [] OTHER -> Returning(ErrC("Invalid page type", p.cur))

\* gi is get_info()?.
VisitInfo(gi, f, page_num, dbg) ==
    IF gi.k # "ok" THEN Returning(gi)
    ELSE VisitPage(BTreePageRead(f, page_num, gi.v.page_size, dbg))

\* The valid databases of table t alone.
PlainFiles == {s \in Regular : s.valid /\ s.schema = <<RowT(2)>>}

\* Page 2 is an interior page whose first child is page 2 itself; page 3 is an
\* interior page whose first child is page 2, the page above it.
LoopFiles ==
    {Scenario(512, Magic, 512, <<RowT(2)>>,
              [kind |-> "interior", layout |-> "desc", rows |-> 1,
               pages |-> <<PageDesc(5, <<InteriorCell(2, 1)>>, 3, "desc"),
                           PageDesc(13, TRows(1, 1), 0, "desc")>>], 65536, FALSE),
     Scenario(512, Magic, 512, <<RowT(2)>>,
              [kind |-> "interior", layout |-> "desc", rows |-> 1,
               pages |-> <<PageDesc(5, <<InteriorCell(3, 1)>>, 4, "desc"),
                           PageDesc(5, <<InteriorCell(2, 1)>>, 4, "desc"),
                           PageDesc(13, TRows(1, 1), 0, "desc")>>], 65536, FALSE)}

CountFiles == PlainFiles \cup LoopFiles

CInit ==
    /\ debug \in BOOLEAN
    /\ scn \in CountFiles
    /\ file = BuildFile(scn)
    /\ frames = <<>>
    /\ \E root \in 1..(1 + Len(scn.pages)) :
        /\ call = Calling(root)
        /\ op = [name |-> "count_records_in_btree", page_num |-> root]
    /\ dbinfo = GetInfo(file, debug)
    /\ cursor = 0 /\ calls = 0
    /\ result = OkC(0, 0)
    /\ vsrc = [kind |-> "raw", x |-> {}] /\ vbuf = <<>>
    /\ vres = [op |-> "none", k |-> "none", value |-> {}, size |-> 0, e |-> ""]
    /\ rsrc = NoRecord /\ rbuf = <<>> /\ rres = NoRead
    /\ psrc = NoSource /\ ptext = <<>> /\ parsed = NoParse

\* v is what the call does before its child loop: it returns, or it enters the
\* loop and calls itself on the first child.
Visited(v) ==
    IF v.k = "descend"
    THEN /\ frames' = Append(frames, Frame(v.r.v, 1, 0))
         /\ call' = Calling(v.r.v[1])
         /\ cursor' = v.r.cur
    ELSE /\ frames' = frames
         /\ call' = v
         /\ cursor' = v.r.cur

\* A call of count_records_in_btree(page_num) is entered.  Its get_info reads
\* the file from its start, and the file is never written: every call gets
\* the info the first call got.
CVisit ==
    /\ call.k = "call"
    /\ IF Len(frames) >= StackFrames
       THEN call' = Overflown /\ UNCHANGED <<frames, cursor>>
       ELSE Visited(VisitInfo(dbinfo, file, call.page, debug))
    /\ UNCHANGED <<file, scn, debug, calls, op, result, dbinfo>>
    /\ UNCHANGED vvars
    /\ UNCHANGED rvars
    /\ UNCHANGED pvars

\* total += self.count_records_in_btree(child_page)?: the call on child i of
\* the top frame returns r.
Resumed(top, r) ==
    IF r.k # "ok"
    THEN /\ frames' = SubSeq(frames, 1, Len(frames) - 1)
         /\ call' = Returning(r)
    ELSE IF top.i = Len(top.children)
    THEN /\ frames' = SubSeq(frames, 1, Len(frames) - 1)
         /\ call' = Returning(OkC(top.total + r.v, r.cur))
    ELSE /\ frames' = [frames EXCEPT ![Len(frames)] =
                          Frame(top.children, top.i + 1, top.total + r.v)]
         /\ call' = Calling(top.children[top.i + 1])

CReturn ==
    /\ call.k = "ret" /\ frames # <<>>
    /\ Resumed(frames[Len(frames)], call.r)
    /\ UNCHANGED <<file, scn, debug, cursor, calls, op, result, dbinfo>>
    /\ UNCHANGED vvars
    /\ UNCHANGED rvars
    /\ UNCHANGED pvars

\* The outermost call returns to execute_count_all.
CFinish ==
    /\ call.k = "ret" /\ frames = <<>>
    /\ result' = call.r
    /\ call' = Returned(call.r)
    /\ calls' = calls + 1
    /\ UNCHANGED <<file, scn, debug, cursor, op, frames, dbinfo>>
    /\ UNCHANGED vvars
    /\ UNCHANGED rvars
    /\ UNCHANGED pvars

CNext == CVisit \/ CReturn \/ CFinish

\* A call that can make a step makes it.
CountSpec == CInit /\ [][CNext]_vars /\ WF_vars(CNext)

----------------------------------------------------------------------------
(* Module specification: the SQLiteDatabase of src/sqlite/mod.rs on one      *)
(* file.  Its get_info reads at the cursor without a seek; its list_tables   *)
(* takes the page size from that get_info, seeks to the start and reads      *)
(* page 1 with the statements of the list_tables of db.rs.                   *)

\* self.file.read_exact(&mut [0; n]) at cursor cur.  A failed read has taken
\* the bytes that were left.
ModReadExact(f, cur, n) ==
    IF cur + n > Len(f)
    THEN ErrC("Io: failed to fill whole buffer", IF cur > Len(f) THEN cur ELSE Len(f))
    ELSE OkC(Slice(f, cur, cur + n), cur + n)

\* ph is the 8-byte page header read after the header.
ModGetInfoCells(ph, header) ==
    IF ph.k # "ok" THEN ph
    ELSE OkC([page_size |-> HeaderPageSize(header), num_tables |-> BE16At(ph.v, 3)],
             ph.cur)

\* h is the 100 bytes read at the cursor.
ModGetInfoHeader(h, f) ==
    IF h.k # "ok" THEN h ELSE ModGetInfoCells(ModReadExact(f, h.cur, 8), h.v)

ModGetInfo(f, cur) == ModGetInfoHeader(ModReadExact(f, cur, 100), f)

\* gi is get_info()?; the page is read from the start of the file.
ModListTablesInfo(gi, f, dbg) ==
    IF gi.k # "ok" THEN gi
    ELSE ListTablesPage(ReadExactFromStart(f, gi.v.page_size), dbg)

ModListTables(f, cur, dbg) == ModListTablesInfo(ModGetInfo(f, cur), f, dbg)

MInit ==
    /\ debug \in BOOLEAN
    /\ scn \in Scenarios
    /\ file = BuildFile(scn)
    /\ cursor = 0 /\ calls = 0
    /\ op = NoOp /\ result = OkC(0, 0)
    /\ vsrc = [kind |-> "raw", x |-> {}] /\ vbuf = <<>>
    /\ vres = [op |-> "none", k |-> "none", value |-> {}, size |-> 0, e |-> ""]
    /\ rsrc = NoRecord /\ rbuf = <<>> /\ rres = NoRead
    /\ psrc = NoSource /\ ptext = <<>> /\ parsed = NoParse
    /\ frames = <<>> /\ call = Idle /\ dbinfo = Idle.r

\* self.get_info() on the open instance: the reads start at the cursor the
\* calls before have left.
MGetInfo ==
    /\ CanCall
    /\ LET r == ModGetInfo(file, cursor) IN
       /\ result' = r
       /\ cursor' = r.cur
    /\ op' = [name |-> "get_info", stmt |-> Statement(<<>>, <<>>)]
    /\ calls' = calls + 1
    /\ UNCHANGED <<file, scn, debug>>
    /\ UNCHANGED vvars
    /\ UNCHANGED rvars
    /\ UNCHANGED pvars
    /\ UNCHANGED cvars

MListTables ==
    /\ CanCall
    /\ LET r == ModListTables(file, cursor, debug) IN
       /\ result' = r
       /\ cursor' = r.cur
    /\ op' = [name |-> "list_tables", stmt |-> Statement(<<>>, <<>>)]
    /\ calls' = calls + 1
    /\ UNCHANGED <<file, scn, debug>>
    /\ UNCHANGED vvars
    /\ UNCHANGED rvars
    /\ UNCHANGED pvars
    /\ UNCHANGED cvars

MNext == MGetInfo \/ MListTables

ModSpec == MInit /\ [][MNext]_vars

----------------------------------------------------------------------------
(* Properties of the database operations, checked under Spec. *)

Executed(stmt) == op.name = "execute" /\ op.stmt = stmt

\* r is Ok with n rows.
HasRows(r, n) == r.k = "ok" /\ Len(r.v) = n

\* C1: on every valid database, for a leaf root and for an interior root
\* alike, the count returned by SELECT COUNT(*) FROM t equals the number of
\* rows returned by SELECT * FROM t.
C1_CountEqualsRows ==
    (scn.valid /\ Executed(CountStmt) /\ result.k = "ok")
        => HasRows(Execute(file, StarStmt, cursor, debug), result.v)

Ascending(rows) ==
    \A i, j \in 1..Len(rows) : i < j => IntOf(rows[i].rowid) < IntOf(rows[j].rowid)

\* C2: the rows returned by SELECT * FROM t are in strictly ascending rowid
\* order on every leaf whose cell pointer array is in key order, whatever the
\* offsets of the cells inside the page.
C2_RowsAscendingByRowid ==
    (scn.valid /\ Executed(StarStmt) /\ result.k = "ok")
        => Ascending(ReadAllRows(file, NameT, debug).v)

\* C3: on every file of at least 100 bytes, get_info, list_tables and execute
\* (COUNT(*), a column, *) end in an error or a result and never panic.
C3_NoPanic ==
    (/\ Len(file) >= 100
     /\ op.name # "none"
     /\ (op.name = "execute" => Len(op.stmt.selections) > 0))
        => result.k # "panic"

MagicOk(f) == Len(f) >= 16 /\ SubSeq(f, 1, 16) = Magic

\* C7: on a file whose first 16 bytes are not the magic string, every command
\* fails with InvalidFormat and returns no page size, table list or result.
C7_BadMagicInvalidFormat ==
    (~MagicOk(file) /\ op.name # "none")
        => (result.k = "err" /\ result.e = "InvalidFormat")

\* The page size of the file format: the 16-bit field, 1 standing for 65536.
NormalizedPageSize(f) == IF BE16At(f, 16) = 1 THEN 65536 ELSE BE16At(f, 16)

\* C8: the page size reported by get_info is the big-endian 16-bit value at
\* header bytes 16-17, a stored 1 being reported as 65536, and list_tables
\* sizes page 1 with that same normalized size.
C8_PageSizeNormalized ==
    (scn.valid /\ op.name = "get_info")
        => (result.k = "ok" /\ result.v.page_size = NormalizedPageSize(file))

\* println!("{}", tables.join(" ")): the line .tables prints.
TablesLine(names) == Join(names, <<32>>)

IsSpace(b) == b \in {9, 10, 11, 12, 13, 32}

\* The number of whitespace-separated tokens of a line.
TokenCount(line) ==
    Cardinality({i \in 1..Len(line) :
                    ~IsSpace(line[i]) /\ (i = 1 \/ IsSpace(line[i - 1]))})

\* No name is empty or holds a whitespace character.
PlainNames(names) ==
    \A i \in 1..Len(names) :
        Len(names[i]) > 0 /\ \A j \in 1..Len(names[i]) : ~IsSpace(names[i][j])

\* t is list_tables() on the same file.
CountsNamesAndTokens(info, t) ==
    /\ t.k = "ok"
    /\ info.num_tables = Len(t.v)
    /\ info.num_tables = TokenCount(TablesLine(t.v))

CountsNames(info, t) ==
    /\ t.k = "ok"
    /\ info.num_tables = Len(t.v)
    /\ (PlainNames(t.v) => info.num_tables = TokenCount(TablesLine(t.v)))

UserRow(row) == row.type = TypeTable /\ ~StartsWith(row.name, SqlitePrefix)

\* The name column of the schema rows that are user tables, in row order.
NamesOf(rows) == [i \in 1..Len(rows) |-> rows[i].name]

UserTableNames(schema) == NamesOf(SelectSeq(schema, UserRow))

\* C10: list_tables emits the name of a sqlite_schema row exactly when the
\* row's type is "table" and its name does not begin with "sqlite_"; index,
\* view and trigger rows contribute nothing, whatever their tbl_name.
C10_ListTablesEmitsUserTables ==
    (scn.valid /\ op.name = "list_tables" /\ result.k = "ok")
        => result.v = UserTableNames(scn.schema)

Named(schema, t) == {i \in 1..Len(schema) : schema[i].name = t}

\* r is the rootpage column of the row named t, or TableNotFound without one.
ResolvesAs(r, schema, t) ==
    IF Named(schema, t) = {} THEN r.k = "err" /\ r.e = "Table not found"
    ELSE r.k = "ok" /\ \E i \in Named(schema, t) : r.v = schema[i].rootpage

\* C12: find_table_root_page(t) returns the rootpage column of the
\* sqlite_schema row whose name column equals t, whatever rows come before it
\* and whatever the lengths of their name and tbl_name; without such a row it
\* fails with TableNotFound.
C12_FindRootPageByName ==
    (/\ scn.valid
     /\ op.name = "execute" /\ Len(op.stmt.selections) > 0
     /\ result.k # "panic")
        => ResolvesAs(FindTableRootPage(file, op.stmt.from_table, debug),
                      scn.schema, op.stmt.from_table)

\* The child page numbers an interior page is written with: the left child of
\* every cell in pointer-array order, then the rightmost child.
ChildrenOf(desc) ==
    [i \in 1..Len(desc.cells) |->
        BE32Of(desc.cells[i][1], desc.cells[i][2], desc.cells[i][3], desc.cells[i][4])]
    \o <<desc.rightmost>>

\* The number of leaf cells below page p of the pages a file is written from
\* (pages[1] is page 2).
RECURSIVE RowsBelow(_, _)
RECURSIVE RowsBelowAll(_, _, _)
RowsBelow(pages, p) ==
    IF pages[p - 1].ptype = 13 THEN Len(pages[p - 1].cells)
    ELSE RowsBelowAll(pages, ChildrenOf(pages[p - 1]), 1)

RowsBelowAll(pages, children, i) ==
    IF i > Len(children) THEN 0
    ELSE RowsBelow(pages, children[i]) + RowsBelowAll(pages, children, i + 1)

\* r is count_records_in_btree(p).
CountIs(r, pages, p) ==
    IF pages[p - 1].ptype \in {5, 13} THEN r.k = "ok" /\ r.v = RowsBelow(pages, p)
    ELSE r.k = "err" /\ r.e = "Invalid page type"

\* C13: count_records_in_btree(p) is cell_count on a table leaf, the sum of the
\* counts of the cell_count + 1 children (left children and rightmost child)
\* on a table interior page, and InvalidPageType on every other page type.
C13_CountByPageType ==
    (scn.valid /\ Executed(CountStmt))
        => \A p \in 2..(1 + Len(scn.pages)) :
              CountIs(CountRecordsInBtree(file, p, debug, 0), scn.pages, p)

\* COUNT(*) has returned the three rows below an interior root of two cells.
C13_Witness ==
    /\ scn.valid /\ Executed(CountStmt)
    /\ scn.kind = "interior" /\ Len(scn.pages[1].cells) = 2
    /\ result.k = "ok" /\ result.v = 3

Range(seq) == {seq[i] : i \in 1..Len(seq)}

\* C14: when page 1 is a table interior page, list_tables and
\* find_table_root_page descend to the leaves below it: the user tables
\* returned are those of the whole schema B-tree, and every row is found.
C14_InteriorSchemaRootDescended ==
    (scn.valid /\ scn.root = "interior")
        => /\ op.name = "list_tables"
                => (result.k = "ok"
                    /\ Range(result.v) = Range(UserTableNames(scn.schema)))
           /\ (op.name = "execute" /\ Len(op.stmt.selections) > 0)
                => ResolvesAs(FindTableRootPage(file, op.stmt.from_table, debug),
                              scn.schema, op.stmt.from_table)

NoInternalName(names) ==
    \A i \in 1..Len(names) : ~StartsWith(names[i], SqlitePrefix)

\* C11: no string beginning with "sqlite_" is an element of the list returned
\* by list_tables, whatever the content of the schema page.
C11_NoSqlitePrefixListed ==
    (op.name = "list_tables" /\ result.k = "ok") => NoInternalName(result.v)

HasInternalRow(schema) ==
    \E i \in 1..Len(schema) : StartsWith(schema[i].tbl_name, SqlitePrefix)

\* list_tables has returned the user table of a schema page that also holds a
\* row of sqlite_sequence.
C11_Witness ==
    /\ op.name = "list_tables" /\ result.k = "ok"
    /\ HasInternalRow(scn.schema)
    /\ Len(result.v) = Len(scn.schema) - 1

\* The text of a stored NULL or TEXT value in a row of output.
StoredText(v) == IF v.t = "null" THEN NullText ELSE v.b

\* One value per declared column, in declared order: the rowid for the column
\* that is an alias of it, the stored value for every other column.
DeclaredRow(alias, rowid, values) ==
    Join([i \in 1..Len(values) |->
             IF alias /\ i = 1 THEN UToString(<<rowid>>) ELSE StoredText(values[i])],
         Bar)

\* The rows of tables t(id integer primary key, name) and a(x) of a database.
DeclaredRows(s, table) ==
    IF table = NameT THEN [k \in 1..s.rows |-> DeclaredRow(TRUE, k, TValues(k))]
    ELSE [k \in 1..s.arows |-> DeclaredRow(FALSE, k, AValues(k))]

\* C21: SELECT * FROM t yields, for every row, one value per declared column
\* in declared order: the rowid for an INTEGER PRIMARY KEY alias, the stored
\* value for every other column, the first column of a table without such an
\* alias included.
C21_StarYieldsDeclaredColumns ==
    (/\ scn.valid /\ scn.root = "leaf"
     /\ op.name = "execute" /\ op.stmt.selections = <<Asterisk>>
     /\ Named(scn.schema, op.stmt.from_table) # {})
        => (result.k = "ok" /\ result.v = DeclaredRows(scn, op.stmt.from_table))

\* The value of a declared column of row k of table t: id is the rowid.
TColumn(name, k) == IF name = NameId THEN UToString(<<k>>) ELSE TValues(k)[2].b

\* One row per row of t, the values of the selected columns joined by "|".
ProjectedRows(s, selections) ==
    [k \in 1..s.rows |->
        Join([i \in 1..Len(selections) |-> TColumn(selections[i].name, k)], Bar)]

\* C22: SELECT c FROM t yields, for each row of t in traversal order, the
\* value stored in column c of that row, and SELECT c1, c2 FROM t yields both
\* values of each row as one row.
C22_ColumnsYieldStoredValues ==
    (/\ scn.valid /\ scn.root = "leaf"
     /\ op.name = "execute" /\ op.stmt \in {ColumnStmt, TwoColumnStmt}
     /\ Named(scn.schema, NameT) # {})
        => (result.k = "ok" /\ result.v = ProjectedRows(scn, op.stmt.selections))

\* C23: SELECT c FROM t, where t exists and c is not the name of a declared
\* column of t, fails with UnknownColumn and returns no rows.
C23_UnknownColumnFails ==
    (/\ scn.valid /\ scn.root = "leaf"
     /\ Executed(UnknownColumnStmt)
     /\ Named(scn.schema, NameT) # {})
        => (result.k = "err" /\ result.e = "UnknownColumn")

----------------------------------------------------------------------------
(* Properties of the varint decoders, checked under VarintSpec. *)

\* C4: for every 64-bit x, read_varint on the standard big-endian encoding of
\* x returns x, and varint_size reports at most 9 bytes consumed.
C4_VarintRoundTrip ==
    (vsrc.kind = "enc" /\ vres.op = "read_varint")
        => (vres.k = "ok" /\ vres.value = vsrc.x /\ vres.size <= 9)

\* C5: on every non-empty buffer, runs of nine or more continuation bytes
\* included, the byte count the decoder reports lies in 1..9 and does not
\* exceed the buffer length.
C5_VarintSizeInRange ==
    (/\ Len(vbuf) > 0
     /\ \/ vres.op = "read_varint"
        \/ (vres.op = "record_read_varint" /\ vres.k = "ok"))
        => (vres.size \in 1..9 /\ vres.size <= Len(vbuf))

\* The buffer ends before a varint is complete: it is empty, or has at most
\* eight bytes and every one has its continuation bit set.
IsTruncated(buf) == Len(buf) <= 8 /\ \A i \in 1..Len(buf) : buf[i] >= 128

\* C6: decoding a varint from a buffer that ends before the varint is
\* complete fails with Truncated instead of returning a value.
C6_TruncatedVarintFails ==
    (IsTruncated(vbuf) /\ vres.op # "none")
        => (vres.k = "err" /\ vres.e = "Truncated")

----------------------------------------------------------------------------
(* Properties of the record decoder, checked under RecordSpec. *)

\* The eight big-endian bytes of the i64 a field of 1..8 bytes stands for.
SignExtend(bytes) ==
    [i \in 1..(8 - Len(bytes)) |-> IF bytes[1] >= 128 THEN 255 ELSE 0] \o bytes

\* C15: read_integer for serial types 1..6 returns the big-endian
\* two's-complement value of the 1, 2, 3, 4, 6 or 8 stored bytes sign-extended
\* to i64, and advances the position by that width.
C15_ReadIntegerSignExtends ==
    (rres.op = "read_integer" /\ rsrc.cut = 0)
        => /\ rres.k = "ok"
           /\ rres.v.value = SignExtend(rbuf)
           /\ rres.v.position = SizeOf(rsrc.tc)

\* A whole row whose first column is the NULL of a rowid alias and that has
\* no column of a reserved serial type.
HasReserved(values) ==
    \E i \in 1..Len(values) : values[i] \in {Reserved10, Reserved11}

PlainRow(src) ==
    /\ src.kind = "row" /\ src.cut = 0
    /\ src.values[1] = Null /\ ~HasReserved(src.values)

\* The bytes of the serial types of the record header.
TypesLen(values) == SumLen([i \in 1..Len(values) |-> Enc(SerialType(values[i]))], Len(values))

\* The end of the record header of a row.
HeaderEnd(src) == src.start + HeaderLength(TypesLen(src.values))

RECURSIVE SizesBefore(_, _)
SizesBefore(values, k) ==
    IF k <= 1 THEN 0
    ELSE SizeOf(SerialType(values[k - 1])) + SizesBefore(values, k - 1)

\* o holds the offsets at which columns 2.. were read.
OffsetsAre(o, values, header_end) ==
    /\ o.k = "ok"
    /\ Len(o.v) = Len(values) - 1
    /\ \A k \in 2..Len(values) : o.v[k - 1] = header_end + SizesBefore(values, k)

\* C16: the value of column k is read from the end of the record header plus
\* the sum of the sizes of the serial types of the columns before it, per the
\* serial-type size table: integer, float and BLOB columns are skipped by
\* their full width.
C16_ColumnsReadAtOffsets ==
    (rres.op = "read_row" /\ PlainRow(rsrc))
        => OffsetsAre(OffsetsFrom(RecordReadHeader(rbuf, rsrc.start, debug), rbuf),
                      rsrc.values, HeaderEnd(rsrc))

SerialTypesOf(values) == [i \in 1..Len(values) |-> U64(SerialType(values[i]))]

\* C17: read_header returns exactly the serial types encoded in the
\* header_length - H bytes after the header_length varint of H bytes, for
\* H = 1 and for H >= 2, and leaves the position at the first value byte.
C17_ReadHeaderSerialTypes ==
    (rres.op = "read_header" /\ rsrc.cut = 0)
        => /\ rres.k = "ok"
           /\ rres.v.types = SerialTypesOf(rsrc.values)
           /\ rres.v.position = HeaderEnd(rsrc)

\* The positions of the bars of a row, and the k-th after position 0.
Bars(row) == {i \in 1..Len(row) : row[i] = 124}

NthBar(row, k) ==
    IF k = 0 THEN 0
    ELSE IF k > Cardinality(Bars(row)) THEN Len(row) + 1
    ELSE CHOOSE i \in Bars(row) : Cardinality({j \in Bars(row) : j < i}) = k - 1

\* The k-th of the values joined by "|" into row.
Field(row, k) == SubSeq(row, NthBar(row, k - 1) + 1, NthBar(row, k) - 1)

\* C18: a column of serial type 8 or 9 decodes to the integer 0 or 1,
\* rendered "0" or "1" in the row, and takes no payload byte.
C18_ConstantsZeroAndOne ==
    (rres.op = "read_row" /\ PlainRow(rsrc))
        => \A k \in 2..Len(rsrc.values) :
              /\ rsrc.values[k] = Zero => (rres.k = "ok" /\ Field(rres.v.row, k) = <<48>>)
              /\ rsrc.values[k] = One => (rres.k = "ok" /\ Field(rres.v.row, k) = <<49>>)

\* C19: decoding a record with a column of serial type 10 or 11 fails with
\* UnsupportedSerialType and produces no row.
C19_ReservedTypesFail ==
    (rres.op = "read_row" /\ rsrc.cut = 0 /\ HasReserved(rsrc.values))
        => (rres.k = "err" /\ rres.e = "UnsupportedSerialType")

\* The buffer ends inside the last declared field: of the integer, or of the
\* last column of a row without reserved types.
Short(src) ==
    /\ src.cut > 0
    /\ src.kind = "row"
          => (Len(src.values[Len(src.values)].b) >= src.cut /\ ~HasReserved(src.values))

\* C20: when the bytes of a record end before a declared field is fully read
\* (text or BLOB length, integer width, 8-byte float), decoding fails with
\* ShortRecord: no shortened value, no read outside the buffer.
C20_ShortRecordFails ==
    (rres.op \in {"read_row", "read_integer"} /\ Short(rsrc))
        => (rres.k = "err" /\ rres.e = "ShortRecord")

----------------------------------------------------------------------------
(* Properties of the parser and of the SQL command, checked under ParseSpec. *)

\* C24: Statement::parse accepts every statement of the grammar, a select
\* list of one or more items separated by commas ('*', an identifier or a
\* function call), FROM and a table identifier, and returns one selection per
\* item in order (Asterisk, Column(name) or Function) and the table name.
C24_ParseAcceptsGrammar ==
    (psrc.kind = "statement" /\ parsed.k # "none")
        => (parsed.k = "ok" /\ parsed.v = Statement(psrc.items, psrc.table))

\* The text is SELECT COUNT(*) FROM t in some letter case, t being a word of
\* letters and digits that starts with a letter and is not SELECT, FROM or
\* COUNT.
IsCountText(src) ==
    src.kind = "statement" /\ Len(src.items) = 1 /\ src.items[1] \in CountCalls

\* C25: for every table identifier t and every letter case of SELECT, COUNT
\* and FROM, parsing SELECT COUNT(*) FROM t succeeds with from_table = t and
\* exactly one selection, a Function whose args are [Asterisk] and whose name
\* is the COUNT text as written; execute runs it as COUNT(*) whatever the case
\* of the function name.
C25_CountParsedInEveryCase ==
    (IsCountText(psrc) /\ parsed.k # "none")
        => /\ parsed.k = "ok"
           /\ parsed.v.from_table = psrc.table
           /\ Len(parsed.v.selections) = 1
           /\ parsed.v.selections[1].kind = "Function"
           /\ parsed.v.selections[1].name = psrc.items[1].name
           /\ parsed.v.selections[1].args = <<Asterisk>>
           /\ op.name = "execute"
                => result = ExecuteCountAll(file, psrc.table, debug)

\* select CoUnT(*) from t has been parsed and executed on a database whose
\* table t has an interior root, and the two rows have been counted.
C25_Witness ==
    /\ IsCountText(psrc)
    /\ psrc.items[1].name = Cased(CountName, "mixed")
    /\ psrc.text[1] = 115
    /\ psrc.table = NameT
    /\ scn.kind = "interior"
    /\ op.name = "execute" /\ result.k = "ok" /\ result.v = 2

\* C26: every text that is not exactly SELECT <select list> FROM <identifier>
\* is rejected by Statement::parse: text with tokens after the table name,
\* with an empty select list, or with select items not separated by commas
\* produces no Statement.
C26_OtherTextsRejected ==
    (psrc.kind \in {"extra", "nolist", "nocomma", "raw"} /\ parsed.k # "none")
        => parsed.k = "err"

\* C29: every Statement that Statement::parse returns has at least one
\* selection, and execute's access to selections[0] is in bounds for every
\* statement that parses, FROM directly after SELECT included.
C29_ParsedHasSelection ==
    /\ parsed.k = "ok" => Len(parsed.v.selections) >= 1
    /\ op.name = "execute" => result.k # "panic"

----------------------------------------------------------------------------
(* Properties of BTreePage::read, checked under PageSpec. *)

\* r is the page of P bytes at offset, an error for an offset at or beyond
\* the end of the file, another for a page cut short by the end of the file.
ReadsPage(r, f, offset, P) ==
    IF offset + P <= Len(f)
    THEN r.k = "ok" /\ r.v.data = SubSeq(f, offset + 1, offset + P)
    ELSE IF offset >= Len(f)
    THEN r.k = "err" /\ r.e = "Page offset exceeds file length" /\ r.v = <<>>
    ELSE r.k = "err" /\ r.e = "Partial read" /\ r.v = <<>>

\* C27: BTreePage::read(n, P) returns exactly the P bytes at file offsets
\* [(n - 1) * P, n * P) when they all exist; it fails with one error when
\* (n - 1) * P is at or beyond the end of the file and with another when fewer
\* than P bytes remain from that offset, and then returns no page.
C27_ReadReturnsPageBytes ==
    op.name = "read"
        => ReadsPage(result, file, (op.page_num - 1) * op.page_size, op.page_size)

\* Page 2 has been read with page size 512 from a file of 700 bytes, and the
\* read has failed on the 188 bytes that remain.
C27_Witness ==
    /\ op.name = "read" /\ op.page_num = 2 /\ op.page_size = 512
    /\ Len(file) = 700
    /\ result.k = "err" /\ result.e = "Partial read"

----------------------------------------------------------------------------
(* Properties of the traversal, checked under CountSpec. *)

\* C28: the traversal started at any page of any file terminates: the stack of
\* pending calls empties and count_records_in_btree returns a count or an
\* error, also when a child pointer of an interior page refers to the page
\* itself or to a page above it.
C28_CountTerminates ==
    <>(call.k = "done" /\ frames = <<>> /\ result.k \in {"ok", "err"})

----------------------------------------------------------------------------
(* Properties of the SQLiteDatabase of src/sqlite/mod.rs, checked under ModSpec. *)

\* What a call returns: Ok with a value, Err or a panic with a message.
Returns(r) == <<r.k, r.v, r.e>>

\* C30: on one open instance every call returns what that call returns as the
\* first call on a freshly opened instance, whatever the calls before it have
\* left in the file cursor, and the file keeps its bytes.
C30_ResultsIgnoreCursor ==
    /\ file = BuildFile(scn)
    /\ (op.name = "get_info" => Returns(result) = Returns(ModGetInfo(file, 0)))
    /\ (op.name = "list_tables" =>
            Returns(result) = Returns(ModListTables(file, 0, debug)))

====
